---- MODULE Spec2Model ----
(***************************************************************************)
(* Streaming ingestion pipeline of the RAG backend:                        *)
(*   PDFProcessor.process_pdf_streaming  (extract + chunk, lazy)           *)
(*   EmbeddingService.generate_embeddings_streaming  (batch + embed)       *)
(*   VectorStore.add_documents_batch / add_documents  (index write)        *)
(*   upload_document / _process_file_background  (progress bookkeeping)    *)
(* Text is a sequence of one-character strings; a page text is what        *)
(* _post_process_text returns (paragraphs joined by a blank line).         *)
(***************************************************************************)
EXTENDS Integers, Sequences, FiniteSets, TLC

\* ---------------------------------------------------------------- bounds
\* pages a file can have
MaxPages == 2
\* raw paragraphs on one page
MaxParas == 2
\* EmbeddingService.batch_size, scaled down (settings.BATCH_SIZE)
BatchSize == 2
\* PDFProcessor.chunk_size, scaled down (settings.CHUNK_SIZE)
ChunkSize == 4
\* minimum paragraph length kept by _post_process_text, scaled down
MinParaLen == 3

\* ------------------------------------------------------------ characters
NL == "\n"

Whitespace == {" ", NL, "\t"}

SentenceEnd == {".", "!", "?"}

UpperCase == {"A","B","C","D","E","F","G","H","I","J","K","L","M",
              "N","O","P","Q","R","S","T","U","V","W","X","Y","Z"}

LowerCase == {"a","b","c","d","e","f","g","h","i","j","k","l","m",
              "n","o","p","q","r","s","t","u","v","w","x","y","z"}

WordChar == UpperCase \cup LowerCase \cup {"0","1","2","3","4","5","6","7","8","9","_"}

\* the token re.sub puts in place of an abbreviation's period
PERIOD == "<PERIOD>"

Abbreviations == { <<"D","r">>, <<"M","r">>, <<"M","r","s">>, <<"M","s">>,
                   <<"P","r","o","f">>, <<"S","r">>, <<"J","r">>,
                   <<"I","n","c">>, <<"L","t","d">>, <<"C","o">> }

\* ------------------------------------------------------- string helpers
RECURSIVE LStrip(_)
LStrip(s) ==
    IF s = <<>> THEN <<>>
    ELSE IF Head(s) \in Whitespace THEN LStrip(Tail(s)) ELSE s

RECURSIVE RStrip(_)
RStrip(s) ==
    IF s = <<>> THEN <<>>
    ELSE IF s[Len(s)] \in Whitespace THEN RStrip(SubSeq(s, 1, Len(s) - 1)) ELSE s

\* str.strip()
Strip(s) == RStrip(LStrip(s))

\* sep.join(parts)
RECURSIVE Join(_, _)
Join(parts, sep) ==
    IF parts = <<>> THEN <<>>
    ELSE IF Len(parts) = 1 THEN parts[1]
    ELSE parts[1] \o sep \o Join(Tail(parts), sep)

\* text.split('\n\n'): pieces between non-overlapping blank-line separators
RECURSIVE SplitBlankLines(_, _)
SplitBlankLines(text, cur) ==
    IF text = <<>> THEN <<cur>>
    ELSE IF Len(text) >= 2 /\ text[1] = NL /\ text[2] = NL
         THEN <<cur>> \o SplitBlankLines(SubSeq(text, 3, Len(text)), <<>>)
         ELSE SplitBlankLines(Tail(text), Append(cur, Head(text)))

\* re.sub(r'\s+', ' ', line): every whitespace run becomes one space
RECURSIVE CollapseSpaces(_)
CollapseSpaces(s) ==
    IF s = <<>> THEN <<>>
    ELSE IF Head(s) \in Whitespace
         THEN <<" ">> \o CollapseSpaces(LStrip(s))
         ELSE <<Head(s)>> \o CollapseSpaces(Tail(s))

\* the elements of a list
Range(f) == {f[i] : i \in DOMAIN f}

RECURSIVE SumSeq(_)
SumSeq(s) == IF s = <<>> THEN 0 ELSE Head(s) + SumSeq(Tail(s))

\* ------------------------------------------------- _post_process_text
\* A raw page is the sequence of its blank-line-delimited line groups,
\* each already joined; the result is the kept paragraphs joined by '\n\n'.
NormalizeParagraph(raw) == Strip(CollapseSpaces(Strip(raw)))

PostProcessText(rawParas) ==
    LET normalized == [i \in 1..Len(rawParas) |-> NormalizeParagraph(rawParas[i])]
        LongEnough(p) == Len(p) >= MinParaLen
    IN  Join(SelectSeq(normalized, LongEnough), <<NL, NL>>)

\* ---------------------------------------------------- _split_sentences
\* position i holds the period of a guarded abbreviation ("Dr. ")
IsAbbreviationPeriod(text, i) ==
    /\ text[i] = "."
    /\ i < Len(text)
    /\ text[i + 1] \in Whitespace
    /\ \E w \in Abbreviations :
          /\ i > Len(w)
          /\ SubSeq(text, i - Len(w), i - 1) = w
          /\ (i - Len(w) = 1 \/ text[i - Len(w) - 1] \notin WordChar)

\* re.sub(abbreviation pattern, r'\1<PERIOD> ', text)
GuardAbbreviations(text) ==
    [i \in 1..Len(text) |->
        IF IsAbbreviationPeriod(text, i) THEN PERIOD
        ELSE IF i > 1 /\ IsAbbreviationPeriod(text, i - 1) THEN " "
        ELSE text[i]]

\* re.split(r'(?<=[.!?])\s+(?=[A-Z])', text)
RECURSIVE SplitOnBoundaries(_, _)
SplitOnBoundaries(text, cur) ==
    IF text = <<>> THEN <<cur>>
    ELSE LET rest == LStrip(text)
         IN  IF /\ Head(text) \in Whitespace
                /\ cur # <<>>
                /\ cur[Len(cur)] \in SentenceEnd
                /\ rest # <<>>
                /\ Head(rest) \in UpperCase
             THEN <<cur>> \o SplitOnBoundaries(rest, <<>>)
             ELSE SplitOnBoundaries(Tail(text), Append(cur, Head(text)))

RestorePeriods(s) == [i \in 1..Len(s) |-> IF s[i] = PERIOD THEN "." ELSE s[i]]

SplitSentences(text) ==
    LET pieces   == SplitOnBoundaries(GuardAbbreviations(text), <<>>)
        NonBlank(s) == Strip(s) # <<>>
        kept     == SelectSeq(pieces, NonBlank)
    IN  [i \in 1..Len(kept) |-> Strip(RestorePeriods(kept[i]))]

\* ------------------------------------------------------------- chunk ids
\* f"chunk_{source_hash}_{index:04d}_{content_hash}": the two md5 digests
\* are functions of the source name and of the chunk text
SourceHash(source) == <<"md5", source>>

ContentHash(text) == <<"md5", text>>

ChunkId(source, index, text) == <<"chunk", SourceHash(source), index, ContentHash(text)>>

MakeChunk(source, index, page_number, text) ==
    [ id          |-> ChunkId(source, index, text),
      content     |-> text,
      chunk_index |-> index,
      page_number |-> page_number,
      char_count  |-> Len(text) ]

\* paragraphs = [p.strip() for p in text.split('\n\n') if p.strip()]
Paragraphs(text) ==
    LET NonBlank(p) == Strip(p) # <<>>
        kept == SelectSeq(SplitBlankLines(text, <<>>), NonBlank)
    IN  [i \in 1..Len(kept) |-> Strip(kept[i])]

\* ------------------------------------------------------ chunk_text (list)
\* greedy packing of the sentences of one over-long paragraph
RECURSIVE PackSentencesText(_, _, _)
PackSentencesText(sentences, current_chunk, current_length) ==
    IF sentences = <<>>
    THEN IF current_chunk # <<>> THEN << Join(current_chunk, <<" ">>) >> ELSE <<>>
    ELSE LET sentence == Head(sentences)
         IN  IF current_length + Len(sentence) > ChunkSize /\ current_chunk # <<>>
             THEN << Join(current_chunk, <<" ">>) >>
                  \o PackSentencesText(Tail(sentences), <<sentence>>, Len(sentence))
             ELSE PackSentencesText(Tail(sentences), Append(current_chunk, sentence),
                                    current_length + Len(sentence))

ParagraphChunksText(para) ==
    IF Len(para) <= ChunkSize THEN <<para>>
    ELSE PackSentencesText(SplitSentences(para), <<>>, 0)

RECURSIVE ChunkTextTexts(_)
ChunkTextTexts(paragraphs) ==
    IF paragraphs = <<>> THEN <<>>
    ELSE ParagraphChunksText(Head(paragraphs)) \o ChunkTextTexts(Tail(paragraphs))

ChunkText(text, source) ==
    IF Strip(text) = <<>> THEN <<>>
    ELSE LET texts == ChunkTextTexts(Paragraphs(text))
         IN  [i \in 1..Len(texts) |->
                [ id          |-> ChunkId(source, i - 1, texts[i]),
                  content     |-> texts[i],
                  chunk_index |-> i - 1,
                  char_count  |-> Len(texts[i]) ]]

\* ----------------------------------------- chunk_text_with_pages (list)
\* greedy packing of the sentences of one over-long paragraph
RECURSIVE PackSentencesPages(_, _, _)
PackSentencesPages(sentences, current_chunk, current_length) ==
    IF sentences = <<>>
    THEN IF current_chunk # <<>> THEN << Join(current_chunk, <<" ">>) >> ELSE <<>>
    ELSE LET sentence == Head(sentences)
         IN  IF current_length + Len(sentence) > ChunkSize /\ current_chunk # <<>>
             THEN << Join(current_chunk, <<" ">>) >>
                  \o PackSentencesPages(Tail(sentences), <<sentence>>, Len(sentence))
             ELSE PackSentencesPages(Tail(sentences), Append(current_chunk, sentence),
                                     current_length + Len(sentence))

ParagraphChunksPages(para) ==
    IF Len(para) <= ChunkSize THEN <<para>>
    ELSE PackSentencesPages(SplitSentences(para), <<>>, 0)

RECURSIVE PageChunkTextsPages(_)
PageChunkTextsPages(paragraphs) ==
    IF paragraphs = <<>> THEN <<>>
    ELSE ParagraphChunksPages(Head(paragraphs)) \o PageChunkTextsPages(Tail(paragraphs))

RECURSIVE ChunkPagesFrom(_, _, _)
ChunkPagesFrom(pages_text, source, global_chunk_index) ==
    IF pages_text = <<>> THEN <<>>
    ELSE LET page_data == Head(pages_text)
             texts == IF Strip(page_data.text) = <<>> THEN <<>>
                      ELSE PageChunkTextsPages(Paragraphs(page_data.text))
             chunks == [i \in 1..Len(texts) |->
                          MakeChunk(source, global_chunk_index + i - 1,
                                    page_data.page_number, texts[i])]
         IN  chunks \o ChunkPagesFrom(Tail(pages_text), source,
                                      global_chunk_index + Len(texts))

ChunkTextWithPages(pages_text, source) == ChunkPagesFrom(pages_text, source, 0)

\* -------------------------------------- process_pdf_streaming (one page)
\* variant: the flush test does not ask for a non-empty current chunk
RECURSIVE PackSentencesStreamingUnguarded(_, _, _)
PackSentencesStreamingUnguarded(sentences, current_chunk, current_length) ==
    IF sentences = <<>>
    THEN IF current_chunk # <<>> THEN << Join(current_chunk, <<" ">>) >> ELSE <<>>
    ELSE LET sentence == Head(sentences)
         IN  IF current_length + Len(sentence) > ChunkSize
             THEN << Join(current_chunk, <<" ">>) >>
                  \o PackSentencesStreamingUnguarded(Tail(sentences), <<sentence>>,
                                                     Len(sentence))
             ELSE PackSentencesStreamingUnguarded(Tail(sentences),
                                                  Append(current_chunk, sentence),
                                                  current_length + Len(sentence))

RECURSIVE PackSentencesStreaming(_, _, _)
PackSentencesStreaming(sentences, current_chunk, current_length) ==
    IF sentences = <<>>
    THEN IF current_chunk # <<>> THEN << Join(current_chunk, <<" ">>) >> ELSE <<>>
    ELSE LET sentence == Head(sentences)
         IN  IF current_length + Len(sentence) > ChunkSize /\ current_chunk # <<>>
             THEN << Join(current_chunk, <<" ">>) >>
                  \o PackSentencesStreaming(Tail(sentences), <<sentence>>, Len(sentence))
             ELSE PackSentencesStreaming(Tail(sentences), Append(current_chunk, sentence),
                                         current_length + Len(sentence))

ParagraphChunksStreaming(para) ==
    IF Len(para) <= ChunkSize THEN <<para>>
    ELSE PackSentencesStreaming(SplitSentences(para), <<>>, 0)

\* the chunk texts the generator will yield for one extracted page, in order
RECURSIVE StreamingChunkTexts(_)
StreamingChunkTexts(paragraphs) ==
    IF paragraphs = <<>> THEN <<>>
    ELSE ParagraphChunksStreaming(Head(paragraphs)) \o StreamingChunkTexts(Tail(paragraphs))

StreamingPageChunkTexts(processed_text) ==
    IF Strip(processed_text) = <<>> THEN <<>>
    ELSE StreamingChunkTexts(Paragraphs(processed_text))

\* ------------------------------------------------------------ input sets
P_fits == <<"A","a",".">>

P_noise == <<" ","a">>

P_two_sentences == <<"A","a","."," "," ","A","a",".">>

P_three_sentences == <<"A","."," ","A","."," ","A">>

RawParagraphs == {P_fits, P_noise, P_two_sentences, P_three_sentences}

\* one sentence longer than any chunk size the model uses
P_long_sentence == <<"A","a","a","a","a","a","a",".">>

\* an over-long sentence followed by a short one
P_long_then_short == <<"A","a","a","a","a","a","a","."," ","A","a",".">>

LongParagraphs == {P_noise, P_long_sentence, P_long_then_short}

\* pages of at most one paragraph, some with an over-long sentence
LongPages == UNION {[1..k -> LongParagraphs] : k \in 0..1}

\* the raw pages extract_pages can hand over
RawPages == UNION {[1..k -> RawParagraphs] : k \in 0..MaxParas}

\* basename of the file being ingested
FileName == "a.pdf"

\* chunks estimated per page: (num_pages or 1) * 3
EstimatePerPage == 3

\* str(document_id)
Str(n) == <<"str", n>>

\* model.encode(batch_texts): one unit vector per text, a function of the text
Embed(text) == <<"vec", text>>

Encode(batch_texts) == [i \in 1..Len(batch_texts) |-> Embed(batch_texts[i])]

\* ------------------------------------------------------------------ state
VARIABLES
    pc,                  \* position of the ingestion handler
    handler,             \* "upload" (upload_document) or "background" (_process_file_background)
    index_configured,    \* VectorStore.index is not None
    doc,                 \* the Document row as committed
    page_num,            \* process_pdf_streaming: pages taken from extract_pages
    pending,             \* process_pdf_streaming: chunk texts of the current page not yet yielded
    global_chunk_index,  \* process_pdf_streaming: chunks yielded so far
    exhausted,           \* extract_pages has no further page
    batch_chunks,        \* generate_embeddings_streaming: buffered chunks
    yielded,             \* the (batch_chunks, embeddings) pair the consumer holds
    all_chunk_ids,       \* handler local
    total_chunks,        \* handler local
    index,               \* datapoints in the vector index
    error,               \* the exception caught, "none" if none
    batch_sizes,         \* history: sizes of the batches yielded so far
    pages_seen,          \* history: the page texts extracted so far
    pipes,               \* the background ingestions running side by side
    fusion,              \* one call of _reciprocal_rank_fusion and the slicing after it
    has_collection,      \* the vector store handed to HybridSearchService has a .collection
    stored,              \* chunks held by the vector index, ids 1..stored
    bm25_index,          \* HybridSearchService.bm25_index
    corpus_ids,          \* HybridSearchService.corpus_ids
    corpus_documents,    \* HybridSearchService.corpus_documents
    corpus_metadatas,    \* HybridSearchService.corpus_metadatas
    tokenized_corpus,    \* HybridSearchService._tokenized_corpus
    calls,               \* the hybrid_search calls of the chat requests
    running,             \* the call the event loop is executing, 0 if none
    endpoint,            \* one request to POST /search
    watch,               \* the process-file requests of the file watcher
    deleted,             \* documents delete_document has removed
    publisher            \* one DirectHTTPPublisher.publish call

vars == <<pc, handler, index_configured, doc, page_num, pending, global_chunk_index,
          exhausted, batch_chunks, yielded, all_chunk_ids, total_chunks, index,
          error, batch_sizes, pages_seen, pipes, fusion, has_collection, stored,
          bm25_index, corpus_ids, corpus_documents, corpus_metadatas,
          tokenized_corpus, calls, running, endpoint, watch, deleted, publisher>>

chunker_vars == <<page_num, pending, global_chunk_index, exhausted, pages_seen>>

batcher_vars == <<batch_chunks, yielded, batch_sizes>>

handler_vars == <<all_chunk_ids, total_chunks>>

\* state of the services the single-document handler never touches
service_vars == <<pipes, fusion, has_collection, stored, bm25_index, corpus_ids,
                  corpus_documents, corpus_metadatas, tokenized_corpus, calls, running,
                  endpoint, watch, deleted, publisher>>

\* state of the routes and of the file watcher
edge_vars == <<endpoint, watch, deleted, publisher>>

\* the fields __init__ gives the search service
keyword_vars == <<bm25_index, corpus_ids, corpus_documents, corpus_metadatas,
                  tokenized_corpus>>

\* the search service, its store and its callers
search_vars == <<has_collection, stored, keyword_vars, calls, running>>

\* the background tasks the thread pool runs side by side
Pipelines == {1, 2}

\* a background task that has not been scheduled
IdlePipe == [ state |-> "idle", document_id |-> 0, filename |-> "", chunks |-> <<>>,
              written |-> 0 ]

DocId == 1

\* no fusion call is under way
NoFusion == [ pc |-> "idle" ]

\* no request to POST /search has arrived
NoSearchRequest == [ pc |-> "idle" ]

\* the process-file requests that may arrive
WatchRequests == {1, 2}

\* a process-file request that has not arrived
IdleHandler == [ pc |-> "idle", file_name |-> <<>>, actual_size |-> 0,
                 message |-> "none", task |-> "none", document_id |-> 0 ]

\* the file watcher has reported nothing: no request, no Document row
NoWatch == [ handlers |-> [r \in WatchRequests |-> IdleHandler], documents |-> <<>> ]

\* no publish call is under way
NoPublish == [ pc |-> "idle", attempt |-> 0, outcomes |-> <<>>, result |-> FALSE ]

\* the routes and the file watcher at rest
EdgeIdle ==
    /\ endpoint = NoSearchRequest
    /\ watch = NoWatch
    /\ deleted = {}
    /\ publisher = NoPublish

\* the chat requests that may be in flight
Callers == {1, 2}

\* a chat request that has not called hybrid_search
IdleCall ==
    [ pc               |-> "idle",
      search_mode      |-> "",
      query            |-> <<>>,
      n_results        |-> 0,
      where            |-> [kind |-> "none", document_id |-> 0, document_ids |-> <<>>],
      semantic_weight  |-> 0,
      pulled           |-> FALSE,
      snapshot         |-> <<>>,
      semantic_results |-> [ids |-> <<>>, documents |-> <<>>, metadatas |-> <<>>,
                            scores |-> <<>>],
      keyword_results  |-> [ids |-> <<>>, documents |-> <<>>, metadatas |-> <<>>,
                            scores |-> <<>>],
      failure          |-> "none",
      result           |-> [returned |-> FALSE] ]

\* self.bm25_index = None
NoBm25 == [ built |-> FALSE, corpus |-> <<>> ]

\* HybridSearchService.__init__
ServiceInit ==
    /\ bm25_index = NoBm25
    /\ corpus_ids = <<>>
    /\ corpus_documents = <<>>
    /\ corpus_metadatas = <<>>
    /\ tokenized_corpus = <<>>
    /\ calls = [c \in Callers |-> IdleCall]
    /\ running = 0

\* Column defaults of the Document model
NoDocument ==
    [ exists           |-> FALSE,
      id               |-> 0,
      filename         |-> "",
      status           |-> "pending",
      num_chunks       |-> 0,
      chunk_ids        |-> <<>>,
      chunks_processed |-> 0,
      chunks_estimated |-> 0,
      error_message    |-> "none" ]

NoBatch == [chunks |-> <<>>, embeddings |-> <<>>]

\* the ingestion handler before its first statement
IngestInit ==
    /\ pc = "start"
    /\ handler = "none"
    /\ index_configured \in BOOLEAN
    /\ doc = NoDocument
    /\ page_num = 0
    /\ pending = <<>>
    /\ global_chunk_index = 0
    /\ exhausted = FALSE
    /\ batch_chunks = <<>>
    /\ yielded = NoBatch
    /\ all_chunk_ids = <<>>
    /\ total_chunks = 0
    /\ index = {}
    /\ error = "none"
    /\ batch_sizes = <<>>
    /\ pages_seen = <<>>
    /\ pipes = [p \in Pipelines |-> IdlePipe]

Init ==
    /\ IngestInit
    /\ fusion = NoFusion
    /\ has_collection = FALSE
    /\ stored = 0
    /\ ServiceInit
    /\ EdgeIdle

\* ----------------------------------------------------- handler prologue
\* doc is the row as other sessions read it: every handler step below
\* assigns and commits in one go, as the code does
\* Document(status="processing", chunks_processed=0); db.add; db.commit
CreateDocument(h) ==
    /\ pc = "start"
    /\ handler' = h
    /\ doc' = [NoDocument EXCEPT !.exists = TRUE, !.id = DocId, !.filename = FileName,
                                 !.status = "processing", !.chunks_processed = 0]
    /\ pc' = "get_services"
    /\ UNCHANGED <<service_vars, index_configured, chunker_vars, batcher_vars, handler_vars, index, error>>

UploadDocumentStart == CreateDocument("upload")

ProcessFileBackgroundStart == CreateDocument("background")

\* get_services(): the module-level services are already built, or are built
\* now without raising
GetServicesOk ==
    /\ pc = "get_services"
    /\ pc' = "extract_metadata"
    /\ UNCHANGED <<service_vars, handler, index_configured, doc, chunker_vars, batcher_vars,
                   handler_vars, index, error>>

\* get_services(): building a service raises (model load, Vertex AI
\* connection, or the constructor call itself)
GetServicesFail ==
    /\ pc = "get_services"
    /\ error' = "services"
    /\ pc' = "outer_error"
    /\ UNCHANGED <<service_vars, handler, index_configured, doc, chunker_vars, batcher_vars,
                   handler_vars, index>>

\* extract_metadata never raises; num_pages is 0 when the metadata read failed
ExtractMetadata(num_pages) ==
    /\ pc = "extract_metadata"
    /\ doc' = [doc EXCEPT !.chunks_estimated =
                   (IF num_pages = 0 THEN 1 ELSE num_pages) * EstimatePerPage]
    /\ pc' = "pull"
    /\ UNCHANGED <<service_vars, handler, index_configured, chunker_vars, batcher_vars,
                   handler_vars, index, error>>

\* ----------------------------------------- process_pdf_streaming steps
\* the page loop takes the next page from extract_pages and post-processes it
ExtractPage(raw) ==
    /\ pc = "pull"
    /\ pending = <<>>
    /\ ~exhausted
    /\ page_num < MaxPages
    /\ LET processed_text == PostProcessText(raw)
       IN  /\ page_num' = page_num + 1
           /\ pending' = StreamingPageChunkTexts(processed_text)
           /\ pages_seen' = Append(pages_seen,
                                   [page_number |-> page_num + 1, text |-> processed_text])
    /\ UNCHANGED <<service_vars, pc, handler, index_configured, doc, global_chunk_index, exhausted,
                   batcher_vars, handler_vars, index, error>>

\* extract_pages raises on the next page (corrupt or unreadable PDF)
ExtractPageFail ==
    /\ pc = "pull"
    /\ pending = <<>>
    /\ ~exhausted
    /\ error' = "extraction"
    /\ pc' = "stream_error"
    /\ UNCHANGED <<service_vars, handler, index_configured, doc, chunker_vars, batcher_vars,
                   handler_vars, index>>

\* variant: the full-batch test is strict
BatchFullStrict(n) == n > BatchSize

\* len(batch_chunks) >= self.batch_size
BatchFull(n) == n >= BatchSize

\* the chunker yields its next chunk and the batcher buffers it
YieldChunk ==
    /\ pc = "pull"
    /\ pending # <<>>
    /\ LET chunk == MakeChunk(FileName, global_chunk_index, page_num, Head(pending))
       IN  /\ batch_chunks' = Append(batch_chunks, chunk)
           /\ pc' = IF BatchFull(Len(batch_chunks) + 1) THEN "embed" ELSE "pull"
    /\ pending' = Tail(pending)
    /\ global_chunk_index' = global_chunk_index + 1
    /\ UNCHANGED <<service_vars, handler, index_configured, doc, page_num, exhausted, pages_seen,
                   yielded, batch_sizes, handler_vars, index, error>>

\* variant: the final partial batch is not flushed
SourceExhaustedNoFlush ==
    /\ pc = "pull"
    /\ pending = <<>>
    /\ ~exhausted
    /\ exhausted' = TRUE
    /\ pc' = "finalize"
    /\ UNCHANGED <<service_vars, handler, index_configured, doc, page_num, pending, global_chunk_index,
                   pages_seen, batcher_vars, handler_vars, index, error>>

\* the chunk source is exhausted: flush the partial batch or end the stream
SourceExhausted ==
    /\ pc = "pull"
    /\ pending = <<>>
    /\ ~exhausted
    /\ exhausted' = TRUE
    /\ pc' = IF batch_chunks # <<>> THEN "embed" ELSE "finalize"
    /\ UNCHANGED <<service_vars, handler, index_configured, doc, page_num, pending, global_chunk_index,
                   pages_seen, batcher_vars, handler_vars, index, error>>

\* ------------------------------- generate_embeddings_streaming steps
\* model.encode succeeds: the generator yields (batch_chunks, embeddings)
EmbedOk ==
    /\ pc = "embed"
    /\ LET batch_texts == [i \in 1..Len(batch_chunks) |-> batch_chunks[i].content]
       IN  yielded' = [chunks |-> batch_chunks, embeddings |-> Encode(batch_texts)]
    /\ batch_sizes' = Append(batch_sizes, Len(batch_chunks))
    /\ pc' = "persist"
    /\ UNCHANGED <<service_vars, handler, index_configured, doc, chunker_vars, batch_chunks,
                   handler_vars, index, error>>

\* variant: the failed batch is dropped and the generator carries on
EmbedFailSkipBatch ==
    /\ pc = "embed"
    /\ error' = "embedding"
    /\ batch_chunks' = <<>>
    /\ pc' = IF exhausted THEN "finalize" ELSE "pull"
    /\ UNCHANGED <<service_vars, handler, index_configured, doc, chunker_vars, yielded, batch_sizes,
                   handler_vars, index>>

\* model.encode raises: logged and re-raised out of the generator
EmbedFail ==
    /\ pc = "embed"
    /\ error' = "embedding"
    /\ pc' = "stream_error"
    /\ UNCHANGED <<service_vars, handler, index_configured, doc, chunker_vars, batcher_vars,
                   handler_vars, index>>

\* ------------------------------------------------------- VectorStore
\* datapoints built by add_documents from zip(ids, embeddings)
Datapoints(ids, embeddings, metadatas) ==
    LET n == IF Len(ids) <= Len(embeddings) THEN Len(ids) ELSE Len(embeddings)
    IN  [i \in 1..n |->
            [ datapoint_id   |-> ids[i],
              feature_vector |-> embeddings[i],
              restricts      |-> IF i <= Len(metadatas)
                                 THEN {metadatas[i].document_id} ELSE {} ]]

\* index.upsert_datapoints
Upsert(store, datapoints) ==
    LET new_ids == {datapoints[i].datapoint_id : i \in 1..Len(datapoints)}
    IN  {d \in store : d.datapoint_id \notin new_ids}
            \cup {datapoints[i] : i \in 1..Len(datapoints)}

\* add_documents when upsert_datapoints does not raise; returns False and
\* writes nothing when the index is not configured for updates
AddDocuments(store, ids, embeddings, metadatas) ==
    IF ~index_configured THEN store
    ELSE Upsert(store, Datapoints(ids, embeddings, metadatas))

\* add_documents_batch when nothing raises: the index afterwards
AddDocumentsBatch(store, chunks, embeddings, document_id) ==
    IF chunks = <<>> \/ embeddings = <<>> THEN store
    ELSE LET ids == [i \in 1..Len(chunks) |-> chunks[i].id]
             metadatas == [i \in 1..Len(chunks) |->
                              [ chunk_index |-> chunks[i].chunk_index,
                                page_number |-> chunks[i].page_number,
                                document_id |-> Str(document_id) ]]
         IN  AddDocuments(store, ids, embeddings, metadatas)

\* the chunks of one document in the index (restricts namespace document_id)
IndexedChunks(document_id) ==
    {d.datapoint_id : d \in {e \in index : Str(document_id) \in e.restricts}}

\* ------------------------------------------------------ handler loop body
\* vec_store.add_documents_batch(batch_chunks, batch_embeddings, doc.id) returns
StoreBatchOk ==
    /\ pc = "persist"
    /\ \/ yielded.chunks = <<>>
       \/ yielded.embeddings = <<>>
       \/ Len(yielded.chunks) = Len(yielded.embeddings)
    /\ index' = AddDocumentsBatch(index, yielded.chunks, yielded.embeddings, doc.id)
    /\ pc' = "commit"
    /\ UNCHANGED <<service_vars, handler, index_configured, doc, chunker_vars, batcher_vars,
                   handler_vars, error>>

\* add_documents_batch raises: length mismatch, or upsert_datapoints fails
StoreBatchFail ==
    /\ pc = "persist"
    /\ yielded.chunks # <<>>
    /\ yielded.embeddings # <<>>
    /\ \/ Len(yielded.chunks) # Len(yielded.embeddings)
       \/ index_configured
    /\ error' = "index_write"
    /\ pc' = "stream_error"
    /\ UNCHANGED <<service_vars, handler, index_configured, doc, chunker_vars, batcher_vars,
                   handler_vars, index>>

\* variant: chunks_processed is set to the batch size, not the running total
CommitProgressBatchOnly ==
    /\ pc = "commit"
    /\ LET batch_ids == [i \in 1..Len(yielded.chunks) |-> yielded.chunks[i].id]
       IN  all_chunk_ids' = all_chunk_ids \o batch_ids
    /\ total_chunks' = total_chunks + Len(yielded.chunks)
    /\ doc' = [doc EXCEPT !.chunks_processed = Len(yielded.chunks)]
    /\ batch_chunks' = <<>>
    /\ yielded' = NoBatch
    /\ pc' = IF exhausted THEN "finalize" ELSE "pull"
    /\ UNCHANGED <<service_vars, handler, index_configured, chunker_vars, batch_sizes, index, error>>

\* variant: every batch is counted as a full one
CommitProgressAssumeFull ==
    /\ pc = "commit"
    /\ LET batch_ids == [i \in 1..Len(yielded.chunks) |-> yielded.chunks[i].id]
       IN  all_chunk_ids' = all_chunk_ids \o batch_ids
    /\ total_chunks' = total_chunks + BatchSize
    /\ doc' = [doc EXCEPT !.chunks_processed = total_chunks + BatchSize]
    /\ batch_chunks' = <<>>
    /\ yielded' = NoBatch
    /\ pc' = IF exhausted THEN "finalize" ELSE "pull"
    /\ UNCHANGED <<service_vars, handler, index_configured, chunker_vars, batch_sizes, index, error>>

\* track ids, advance chunks_processed, commit; then the generator is resumed
\* and resets its buffer
CommitProgress ==
    /\ pc = "commit"
    /\ LET batch_ids == [i \in 1..Len(yielded.chunks) |-> yielded.chunks[i].id]
       IN  all_chunk_ids' = all_chunk_ids \o batch_ids
    /\ total_chunks' = total_chunks + Len(yielded.chunks)
    /\ doc' = [doc EXCEPT !.chunks_processed = total_chunks + Len(yielded.chunks)]
    /\ batch_chunks' = <<>>
    /\ yielded' = NoBatch
    /\ pc' = IF exhausted THEN "finalize" ELSE "pull"
    /\ UNCHANGED <<service_vars, handler, index_configured, chunker_vars, batch_sizes, index, error>>

\* ------------------------------------------------------ handler epilogue
\* the stream ended without error: final document record
Finalize ==
    /\ pc = "finalize"
    /\ doc' = [doc EXCEPT !.num_chunks = total_chunks,
                          !.chunk_ids = all_chunk_ids,
                          !.chunks_processed = total_chunks,
                          !.status = "completed"]
    /\ pc' = "done"
    /\ UNCHANGED <<service_vars, handler, index_configured, chunker_vars, batcher_vars,
                   handler_vars, index, error>>

\* variant: the inner handler records the failure but not the chunks stored
StreamFailedNoCount ==
    /\ pc = "stream_error"
    /\ doc' = [doc EXCEPT !.status = "failed", !.error_message = error]
    /\ pc' = "done"
    /\ UNCHANGED <<service_vars, handler, index_configured, chunker_vars, batcher_vars,
                   handler_vars, index, error>>

\* inner except: the streaming loop raised
StreamFailed ==
    /\ pc = "stream_error"
    /\ doc' = [doc EXCEPT !.status = "failed",
                          !.error_message = error,
                          !.num_chunks = total_chunks,
                          !.chunk_ids = all_chunk_ids]
    /\ pc' = "done"
    /\ UNCHANGED <<service_vars, handler, index_configured, chunker_vars, batcher_vars,
                   handler_vars, index, error>>

\* variant: the outer handler leaves the status untouched
OuterExceptNoStatus ==
    /\ pc = "outer_error"
    /\ doc' = IF handler = "upload"
              THEN [doc EXCEPT !.exists = FALSE]
              ELSE [doc EXCEPT !.error_message = error]
    /\ pc' = "done"
    /\ UNCHANGED <<service_vars, handler, index_configured, chunker_vars, batcher_vars,
                   handler_vars, index, error>>

\* outer except: upload_document deletes the row, the background task marks it failed
OuterExcept ==
    /\ pc = "outer_error"
    /\ doc' = IF handler = "upload"
              THEN [doc EXCEPT !.exists = FALSE]
              ELSE [doc EXCEPT !.status = "failed", !.error_message = error]
    /\ pc' = "done"
    /\ UNCHANGED <<service_vars, handler, index_configured, chunker_vars, batcher_vars,
                   handler_vars, index, error>>

\* ------------------------------------------------ get_document_progress
IsSearchable == doc.chunks_processed > 0 \/ doc.num_chunks > 0

\* min(100, chunks_processed / chunks_estimated * 100), in whole percent
ProgressPercent ==
    IF doc.chunks_estimated > 0
    THEN LET p == (doc.chunks_processed * 100) \div doc.chunks_estimated
         IN  IF p > 100 THEN 100 ELSE p
    ELSE IF doc.status = "completed" /\ doc.num_chunks > 0 THEN 100 ELSE -1

\* ---------------------------------------------------------- specification
Next ==
    \/ UploadDocumentStart
    \/ ProcessFileBackgroundStart
    \/ GetServicesOk
    \/ GetServicesFail
    \/ \E num_pages \in 0..MaxPages : ExtractMetadata(num_pages)
    \/ \E raw \in RawPages : ExtractPage(raw)
    \/ ExtractPageFail
    \/ YieldChunk
    \/ SourceExhausted
    \/ EmbedOk
    \/ EmbedFail
    \/ StoreBatchOk
    \/ StoreBatchFail
    \/ CommitProgress
    \/ Finalize
    \/ StreamFailed
    \/ OuterExcept

Spec == Init /\ [][Next]_vars

\* the handler is one sequential thread: whenever it can take a step it does
FairSpec == Spec /\ WF_vars(Next)

\* the same pipeline reading a file whose pages hold over-long sentences
NextLong ==
    \/ UploadDocumentStart
    \/ ProcessFileBackgroundStart
    \/ GetServicesOk
    \/ GetServicesFail
    \/ \E num_pages \in 0..MaxPages : ExtractMetadata(num_pages)
    \/ \E raw \in LongPages : ExtractPage(raw)
    \/ ExtractPageFail
    \/ YieldChunk
    \/ SourceExhausted
    \/ EmbedOk
    \/ EmbedFail
    \/ StoreBatchOk
    \/ StoreBatchFail
    \/ CommitProgress
    \/ Finalize
    \/ StreamFailed
    \/ OuterExcept

SpecLong == Init /\ [][NextLong]_vars

\* ------------------------------------------- concurrent background tasks
\* _process_file_background runs in the thread pool, one task per accepted
\* process-file request; the tasks share the vector index and nothing else.
\* A task is followed here from one index write to the next.
single_vars == <<pc, handler, doc, chunker_vars, batcher_vars, handler_vars, error>>

\* osp.basename(file_path) of the files the watcher reports
FileNames == {"a.pdf", "b.pdf"}

\* the raw pages of the files the watcher reports
WatchedFiles == { << <<P_fits>> >>,
                  << <<P_three_sentences>> >>,
                  << <<P_fits>>, <<P_two_sentences>> >> }

\* the chunks process_pdf_streaming yields for a file, in order
RECURSIVE StreamChunksFrom(_, _, _, _)
StreamChunksFrom(raw_pages, source, page_number, chunk_index) ==
    IF raw_pages = <<>> THEN <<>>
    ELSE LET texts == StreamingPageChunkTexts(PostProcessText(Head(raw_pages)))
             chunks == [i \in 1..Len(texts) |->
                          MakeChunk(source, chunk_index + i - 1, page_number, texts[i])]
         IN  chunks \o StreamChunksFrom(Tail(raw_pages), source, page_number + 1,
                                        chunk_index + Len(texts))

ProcessPdfStreaming(raw_pages, source) == StreamChunksFrom(raw_pages, source, 1, 0)

\* the autoincrement primary key of the next Document row
NextDocumentId == 1 + Cardinality({p \in Pipelines : pipes[p].state # "idle"})

\* doc = Document(filename=actual_filename, ...); db.add; db.commit
StartPipeline(p, file_name, raw_pages) ==
    /\ pipes[p].state = "idle"
    /\ pipes' = [pipes EXCEPT ![p] =
                    [ state       |-> "processing",
                      document_id |-> NextDocumentId,
                      filename    |-> file_name,
                      chunks      |-> ProcessPdfStreaming(raw_pages, file_name),
                      written     |-> 0 ]]
    /\ UNCHANGED <<edge_vars, single_vars, index_configured, index, fusion, search_vars>>

\* the next batch generate_embeddings_streaming yields to task p
PipeBatch(p) ==
    LET last == IF pipes[p].written + BatchSize <= Len(pipes[p].chunks)
                THEN pipes[p].written + BatchSize ELSE Len(pipes[p].chunks)
    IN  SubSeq(pipes[p].chunks, pipes[p].written + 1, last)

\* vec_store.add_documents_batch(batch_chunks, batch_embeddings, doc.id)
PipelineStoreBatch(p) ==
    /\ pipes[p].state = "processing"
    /\ pipes[p].written < Len(pipes[p].chunks)
    /\ LET batch == PipeBatch(p)
           batch_texts == [i \in 1..Len(batch) |-> batch[i].content]
       IN  /\ index' = AddDocumentsBatch(index, batch, Encode(batch_texts),
                                         pipes[p].document_id)
           /\ pipes' = [pipes EXCEPT ![p].written = @ + Len(batch)]
    /\ UNCHANGED <<edge_vars, single_vars, index_configured, fusion, search_vars>>

\* the stream is exhausted: doc.status = "completed"
PipelineFinish(p) ==
    /\ pipes[p].state = "processing"
    /\ pipes[p].written = Len(pipes[p].chunks)
    /\ pipes' = [pipes EXCEPT ![p].state = "completed"]
    /\ UNCHANGED <<edge_vars, single_vars, index_configured, index, fusion, search_vars>>

\* extraction, embedding or the index write raises: doc.status = "failed"
PipelineFail(p) ==
    /\ pipes[p].state = "processing"
    /\ pipes' = [pipes EXCEPT ![p].state = "failed"]
    /\ UNCHANGED <<edge_vars, single_vars, index_configured, index, fusion, search_vars>>

NextTwo ==
    \/ \E p \in Pipelines, file_name \in FileNames, raw_pages \in WatchedFiles :
           StartPipeline(p, file_name, raw_pages)
    \/ \E p \in Pipelines : PipelineStoreBatch(p)
    \/ \E p \in Pipelines : PipelineFinish(p)
    \/ \E p \in Pipelines : PipelineFail(p)

SpecTwo == Init /\ [][NextTwo]_vars

\* ------------------------------------------ _reciprocal_rank_fusion
\* chunk ids the engines can return
MaxIds == 3

SearchIds == 1..MaxIds

\* k of _reciprocal_rank_fusion
K == 60

\* semantic_weight is counted in tenths
WeightDen == 10

SemanticWeights == {0, 3, 5, 7, 10}

\* variant: the keyword list is weighted like the semantic list
KeywordWeightSame(semantic_weight) == semantic_weight

\* keyword_weight = 1 - semantic_weight
KeywordWeight(semantic_weight) == WeightDen - semantic_weight

\* common denominator of the fractions 1 / (k + rank + 1) of a list's ranks
RECURSIVE RankProduct(_)
RankProduct(n) == IF n = 0 THEN 1 ELSE (K + n) * RankProduct(n - 1)

\* weight / (k + rank + 1), counted in units of 1 / (WeightDen * RankProduct(MaxIds))
Contribution(weight, rank) == weight * (RankProduct(MaxIds) \div (K + rank + 1))

\* list.index(x), 1-based
IndexOf(list, x) ==
    CHOOSE i \in 1..Len(list) : list[i] = x /\ \A j \in 1..(i - 1) : list[j] # x

\* position of chunk_id among the keys of combined_scores (a dict keeps
\* insertion order), 0 when it is not a key
KeyPosition(combined_scores, chunk_id) ==
    IF \E i \in 1..Len(combined_scores) : combined_scores[i].id = chunk_id
    THEN CHOOSE i \in 1..Len(combined_scores) : combined_scores[i].id = chunk_id
    ELSE 0

\* the loop over the semantic results
RECURSIVE FuseSemantic(_, _, _, _)
FuseSemantic(semantic_results, semantic_weight, rank, combined_scores) ==
    IF rank >= Len(semantic_results.ids) THEN combined_scores
    ELSE LET chunk_id == semantic_results.ids[rank + 1]
             idx == IndexOf(semantic_results.ids, chunk_id)
             entered ==
                 IF KeyPosition(combined_scores, chunk_id) = 0
                 THEN Append(combined_scores,
                             [ id             |-> chunk_id,
                               document       |-> semantic_results.documents[idx],
                               metadata       |-> semantic_results.metadatas[idx],
                               rrf_score      |-> 0,
                               semantic_score |-> semantic_results.scores[idx],
                               keyword_score  |-> 0 ])
                 ELSE combined_scores
             pos == KeyPosition(entered, chunk_id)
         IN  FuseSemantic(semantic_results, semantic_weight, rank + 1,
                          [entered EXCEPT ![pos].rrf_score =
                               @ + Contribution(semantic_weight, rank)])

\* variant: the loop over the keyword results only updates ids it already has
RECURSIVE FuseKeywordKnownOnly(_, _, _, _)
FuseKeywordKnownOnly(keyword_results, keyword_weight, rank, combined_scores) ==
    IF rank >= Len(keyword_results.ids) THEN combined_scores
    ELSE LET chunk_id == keyword_results.ids[rank + 1]
             idx == IndexOf(keyword_results.ids, chunk_id)
             pos == KeyPosition(combined_scores, chunk_id)
         IN  FuseKeywordKnownOnly(keyword_results, keyword_weight, rank + 1,
                 IF pos = 0 THEN combined_scores
                 ELSE [combined_scores EXCEPT
                           ![pos].keyword_score = keyword_results.scores[idx],
                           ![pos].rrf_score = @ + Contribution(keyword_weight, rank)])

\* the loop over the keyword results
RECURSIVE FuseKeyword(_, _, _, _)
FuseKeyword(keyword_results, keyword_weight, rank, combined_scores) ==
    IF rank >= Len(keyword_results.ids) THEN combined_scores
    ELSE LET chunk_id == keyword_results.ids[rank + 1]
             idx == IndexOf(keyword_results.ids, chunk_id)
             entered ==
                 IF KeyPosition(combined_scores, chunk_id) = 0
                 THEN Append(combined_scores,
                             [ id             |-> chunk_id,
                               document       |-> keyword_results.documents[idx],
                               metadata       |-> keyword_results.metadatas[idx],
                               rrf_score      |-> 0,
                               semantic_score |-> 0,
                               keyword_score  |-> keyword_results.scores[idx] ])
                 ELSE [combined_scores EXCEPT
                           ![KeyPosition(combined_scores, chunk_id)].keyword_score =
                               keyword_results.scores[idx]]
             pos == KeyPosition(entered, chunk_id)
         IN  FuseKeyword(keyword_results, keyword_weight, rank + 1,
                         [entered EXCEPT ![pos].rrf_score =
                              @ + Contribution(keyword_weight, rank)])

\* a subscript in one of the two loops is out of range (IndexError)
FusionIndexError(semantic_results, keyword_results) ==
    \/ \E rank \in 1..Len(semantic_results.ids) :
           LET idx == IndexOf(semantic_results.ids, semantic_results.ids[rank])
           IN  \/ idx > Len(semantic_results.documents)
               \/ idx > Len(semantic_results.metadatas)
               \/ idx > Len(semantic_results.scores)
    \/ \E rank \in 1..Len(keyword_results.ids) :
           LET chunk_id == keyword_results.ids[rank]
               idx == IndexOf(keyword_results.ids, chunk_id)
               known == \E i \in 1..Len(semantic_results.ids) :
                            semantic_results.ids[i] = chunk_id
           IN  \/ idx > Len(keyword_results.scores)
               \/ ~known /\ idx > Len(keyword_results.documents)
               \/ ~known /\ idx > Len(keyword_results.metadatas)

\* variant: sorted(...) without reverse=True
RECURSIVE InsertByScoreAscending(_, _)
InsertByScoreAscending(sorted_results, item) ==
    IF sorted_results = <<>> THEN <<item>>
    ELSE IF Head(sorted_results).rrf_score <= item.rrf_score
         THEN <<Head(sorted_results)>> \o InsertByScoreAscending(Tail(sorted_results), item)
         ELSE <<item>> \o sorted_results

\* sorted(..., key=rrf_score, reverse=True) is stable: an item goes behind
\* every item whose score is not lower
RECURSIVE InsertByScore(_, _)
InsertByScore(sorted_results, item) ==
    IF sorted_results = <<>> THEN <<item>>
    ELSE IF Head(sorted_results).rrf_score >= item.rrf_score
         THEN <<Head(sorted_results)>> \o InsertByScore(Tail(sorted_results), item)
         ELSE <<item>> \o sorted_results

RECURSIVE SortedByRrf(_)
SortedByRrf(items) ==
    IF items = <<>> THEN <<>>
    ELSE InsertByScore(SortedByRrf(SubSeq(items, 1, Len(items) - 1)), items[Len(items)])

\* semantic_score * 0.7 + normalized_rrf * 0.3 as the fraction num / den;
\* semantic scores are counted in tenths, rrf_range = 0 stands for the
\* code's range 1 when all scores are equal
DisplayScore(item, min_rrf, rrf_range) ==
    IF rrf_range = 0
    THEN [num |-> 7 * item.semantic_score, den |-> 100]
    ELSE [num |-> 7 * item.semantic_score * rrf_range + 30 * (item.rrf_score - min_rrf),
          den |-> 100 * rrf_range]

\* what a raising call leaves its caller with
Raised == [ raised |-> TRUE, ids |-> <<>>, documents |-> <<>>, metadatas |-> <<>>,
            scores |-> <<>>, semantic_scores |-> <<>>, keyword_scores |-> <<>> ]

ReciprocalRankFusion(semantic_results, keyword_results, semantic_weight) ==
    IF FusionIndexError(semantic_results, keyword_results) THEN Raised
    ELSE
    LET combined_scores ==
            FuseKeyword(keyword_results, KeywordWeight(semantic_weight), 0,
                        FuseSemantic(semantic_results, semantic_weight, 0, <<>>))
        sorted_results == SortedByRrf(combined_scores)
        n == Len(sorted_results)
        max_rrf == sorted_results[1].rrf_score
        min_rrf == IF n > 1 THEN sorted_results[n].rrf_score ELSE 0
        rrf_range == IF max_rrf # min_rrf THEN max_rrf - min_rrf ELSE 0
    IN  [ raised          |-> FALSE,
          ids             |-> [i \in 1..n |-> sorted_results[i].id],
          documents       |-> [i \in 1..n |-> sorted_results[i].document],
          metadatas       |-> [i \in 1..n |-> sorted_results[i].metadata],
          scores          |-> [i \in 1..n |->
                                  DisplayScore(sorted_results[i], min_rrf, rrf_range)],
          semantic_scores |-> [i \in 1..n |-> sorted_results[i].semantic_score],
          keyword_scores  |-> [i \in 1..n |-> sorted_results[i].keyword_score] ]

\* list[:n]
Take(list, n) == SubSeq(list, 1, IF n <= Len(list) THEN n ELSE Len(list))

\* the slicing hybrid_search applies to the fused lists
TopResults(combined_results, n_results) ==
    [ raised          |-> combined_results.raised,
      ids             |-> Take(combined_results.ids, n_results),
      documents       |-> Take(combined_results.documents, n_results),
      metadatas       |-> Take(combined_results.metadatas, n_results),
      scores          |-> Take(combined_results.scores, n_results),
      semantic_scores |-> Take(combined_results.semantic_scores, n_results),
      keyword_scores  |-> Take(combined_results.keyword_scores, n_results) ]

\* ------------------------------------------------ the fusion on its own
\* content and metadata of the chunks behind the ids
StoredTexts == << <<"A","a"," ","b">>, <<"c"," ","b">>, <<".">>, <<"b"," ","b">> >>

StoredText(id) == StoredTexts[((id - 1) % Len(StoredTexts)) + 1]

\* chunks of the document ingested first; later chunks are document 2's
FirstDocumentChunks == 2

\* metadata["document_id"] = str(document_id)
StoredMetadata(id) == [document_id |-> Str(IF id <= FirstDocumentChunks THEN 1 ELSE 2)]

\* ranked id lists: an engine returns no id twice
RankedIdLists ==
    UNION {{ids \in [1..n -> SearchIds] : \A i, j \in 1..n : i # j => ids[i] # ids[j]}
           : n \in 0..MaxIds}

\* 1 - distance of the neighbour at a rank, in tenths
SemanticScoreAt(position) == 10 - 2 * position

\* BM25 score of the hit at a rank
KeywordScoreAt(position) == MaxIds + 1 - position

\* semantic_search's return value when the store hands back documents and
\* metadatas with the ids (aligned), and when it is VectorStore.search, which
\* returns "documents": [] and "metadatas": []
SemanticResults(ids, aligned) ==
    [ ids       |-> ids,
      documents |-> IF aligned THEN [i \in 1..Len(ids) |-> StoredText(ids[i])] ELSE <<>>,
      metadatas |-> IF aligned THEN [i \in 1..Len(ids) |-> StoredMetadata(ids[i])] ELSE <<>>,
      scores    |-> [i \in 1..Len(ids) |-> SemanticScoreAt(i)] ]

\* keyword_search's return value for the hits ids
KeywordResults(ids) ==
    [ ids       |-> ids,
      documents |-> [i \in 1..Len(ids) |-> StoredText(ids[i])],
      metadatas |-> [i \in 1..Len(ids) |-> StoredMetadata(ids[i])],
      scores    |-> [i \in 1..Len(ids) |-> KeywordScoreAt(i)] ]

FusionCalls ==
    { [ pc               |-> "called",
        semantic_results |-> SemanticResults(sem_ids, aligned),
        keyword_results  |-> KeywordResults(kw_ids),
        semantic_weight  |-> w,
        n_results        |-> n ] :
      sem_ids \in RankedIdLists, aligned \in BOOLEAN, kw_ids \in RankedIdLists,
      w \in SemanticWeights, n \in 1..MaxIds }

InitFusion ==
    /\ IngestInit
    /\ fusion \in FusionCalls
    /\ has_collection = FALSE
    /\ stored = 0
    /\ ServiceInit
    /\ EdgeIdle

\* combined_results = self._reciprocal_rank_fusion(...)
Fuse ==
    /\ fusion.pc = "called"
    /\ LET combined_results == ReciprocalRankFusion(fusion.semantic_results,
                                                    fusion.keyword_results,
                                                    fusion.semantic_weight)
       IN  fusion' = [ pc               |-> IF combined_results.raised
                                            THEN "raised" ELSE "fused",
                       semantic_results |-> fusion.semantic_results,
                       keyword_results  |-> fusion.keyword_results,
                       semantic_weight  |-> fusion.semantic_weight,
                       n_results        |-> fusion.n_results,
                       combined_results |-> combined_results ]
    /\ UNCHANGED <<edge_vars, single_vars, index_configured, index, pipes, search_vars>>

\* return {"ids": combined_results["ids"][:n_results], ...}
ReturnTop ==
    /\ fusion.pc = "fused"
    /\ fusion' = [ pc               |-> "returned",
                   semantic_results |-> fusion.semantic_results,
                   keyword_results  |-> fusion.keyword_results,
                   semantic_weight  |-> fusion.semantic_weight,
                   n_results        |-> fusion.n_results,
                   combined_results |-> fusion.combined_results,
                   result           |-> TopResults(fusion.combined_results,
                                                   fusion.n_results) ]
    /\ UNCHANGED <<edge_vars, single_vars, index_configured, index, pipes, search_vars>>

NextFusion ==
    \/ Fuse
    \/ ReturnTop

SpecFusion == InitFusion /\ [][NextFusion]_vars

\* ------------------------------------------------------------ _tokenize
UpperLetters == <<"A","B","C","D","E","F","G","H","I","J","K","L","M",
                  "N","O","P","Q","R","S","T","U","V","W","X","Y","Z">>

LowerLetters == <<"a","b","c","d","e","f","g","h","i","j","k","l","m",
                  "n","o","p","q","r","s","t","u","v","w","x","y","z">>

\* text.lower()
ToLower(text) ==
    [i \in 1..Len(text) |->
        IF text[i] \in UpperCase
        THEN LowerLetters[CHOOSE n \in 1..Len(UpperLetters) : UpperLetters[n] = text[i]]
        ELSE text[i]]

\* re.findall(r'\b\w+\b', text): the maximal runs of word characters
RECURSIVE WordRuns(_, _)
WordRuns(text, cur) ==
    IF text = <<>> THEN (IF cur = <<>> THEN <<>> ELSE <<cur>>)
    ELSE IF Head(text) \in WordChar
         THEN WordRuns(Tail(text), Append(cur, Head(text)))
         ELSE (IF cur = <<>> THEN <<>> ELSE <<cur>>) \o WordRuns(Tail(text), <<>>)

Tokenize(text) == WordRuns(ToLower(text), <<>>)

\* ------------------------------------------------------------ BM25Okapi
\* 1000 * ln(x) for the odd x that 2 * count + 1 can be
LnMilli == (1 :> 0) @@ (3 :> 1099) @@ (5 :> 1609) @@ (7 :> 1946) @@ (9 :> 2197)
           @@ (11 :> 2398) @@ (13 :> 2565)

RECURSIVE SumOver(_, _)
SumOver(f, S) ==
    IF S = {} THEN 0
    ELSE LET x == CHOOSE y \in S : TRUE IN f[x] + SumOver(f, S \ {x})

\* occurrences of word in one tokenized document
TermFrequency(word, document) == Cardinality({i \in 1..Len(document) : document[i] = word})

\* the words of the corpus (keys of nd)
CorpusWords(corpus) == UNION {Range(corpus[i]) : i \in 1..Len(corpus)}

\* nd[word]: the number of documents that hold word
DocumentFrequency(word, corpus) ==
    Cardinality({i \in 1..Len(corpus) : word \in Range(corpus[i])})

\* log(corpus_size - freq + 0.5) - log(freq + 0.5), times 1000
RawIdf(word, corpus) ==
    LET freq == DocumentFrequency(word, corpus)
    IN  LnMilli[2 * (Len(corpus) - freq) + 1] - LnMilli[2 * freq + 1]

\* idf_sum / len(self.idf)
AverageIdf(corpus) ==
    LET words == CorpusWords(corpus)
    IN  SumOver([w \in words |-> RawIdf(w, corpus)], words) \div Cardinality(words)

\* self.idf.get(q) or 0: a negative idf is replaced by epsilon * average_idf
Idf(word, corpus) ==
    IF word \notin CorpusWords(corpus) THEN 0
    ELSE IF RawIdf(word, corpus) < 0 THEN AverageIdf(corpus) \div 4
    ELSE RawIdf(word, corpus)

\* idf * tf * (k1 + 1) / (tf + k1 * (1 - b + b * doc_len / avgdl)) with
\* k1 = 1.5 and b = 0.75, numerator and denominator times 8 * (sum of doc_len)
TermScore(word, i, corpus) ==
    LET tf    == TermFrequency(word, corpus[i])
        total == SumSeq([d \in 1..Len(corpus) |-> Len(corpus[d])])
    IN  IF tf = 0 THEN 0
        ELSE (Idf(word, corpus) * 20 * tf * total)
                 \div (8 * tf * total + 3 * total + 9 * Len(corpus[i]) * Len(corpus))

\* get_scores(query_tokens): one score per document of the corpus
GetScores(corpus, query_tokens) ==
    [i \in 1..Len(corpus) |->
        SumSeq([q \in 1..Len(query_tokens) |-> TermScore(query_tokens[q], i, corpus)])]

\* BM25Okapi(corpus) divides by the number of distinct words
Bm25BuildRaises(corpus) == CorpusWords(corpus) = {}

\* ------------------------------------------------------ the vector index
\* where_filter = None
NoFilter == [kind |-> "none", document_id |-> 0, document_ids |-> <<>>]

\* the metadata filter hybrid_search builds; document_id 0 stands for None
WhereFilter(document_id, document_ids) ==
    IF Len(document_ids) > 0
    THEN [kind |-> "in", document_id |-> 0, document_ids |-> document_ids]
    ELSE IF document_id # 0
         THEN [kind |-> "eq", document_id |-> document_id, document_ids |-> <<>>]
         ELSE NoFilter

\* a chunk's metadata passes the filter
Matches(where, metadata) ==
    CASE where.kind = "none" -> TRUE
      [] where.kind = "eq"   -> metadata.document_id = Str(where.document_id)
      [] where.kind = "in"   -> \E i \in 1..Len(where.document_ids) :
                                    metadata.document_id = Str(where.document_ids[i])

\* ids among the first n chunks that pass the filter, in insertion order
RECURSIVE MatchingIds(_, _)
MatchingIds(where, n) ==
    IF n = 0 THEN <<>>
    ELSE IF Matches(where, StoredMetadata(n))
         THEN Append(MatchingIds(where, n - 1), n)
         ELSE MatchingIds(where, n - 1)

\* get(filter) -> (ids, texts, metadatas) of the vector index
CollectionGet(where) ==
    LET ids == MatchingIds(where, stored)
    IN  [ ids       |-> ids,
          documents |-> [i \in 1..Len(ids) |-> StoredText(ids[i])],
          metadatas |-> [i \in 1..Len(ids) |-> StoredMetadata(ids[i])] ]

\* the orders in which the endpoint may rank the n stored chunks
NeighborOrders(n) == { [i \in 1..n |-> i], [i \in 1..n |-> n + 1 - i] }

\* what find_neighbors may answer: nothing, or the num_neighbors nearest
Neighbors(num_neighbors) == {<<>>} \cup {Take(order, num_neighbors) : order \in NeighborOrders(stored)}

\* cosine distance of the neighbour at a rank, in tenths
Distance(position) == 2 * position

\* VectorStore.search: the filter is built and not passed on; documents and
\* metadatas are left for the database
VectorStoreSearch(ids, where) ==
    [ ids       |-> ids,
      documents |-> <<>>,
      metadatas |-> <<>>,
      distances |-> [i \in 1..Len(ids) |-> Distance(i)] ]

\* semantic_search: scores = [1 - d for d in results["distances"]]
SemanticSearchResults(results) ==
    [ ids       |-> results.ids,
      documents |-> results.documents,
      metadatas |-> results.metadatas,
      scores    |-> [i \in 1..Len(results.distances) |-> 10 - results.distances[i]] ]

\* ---------------------------------------------------------- keyword_search
EmptyResults == [ids |-> <<>>, documents |-> <<>>, metadatas |-> <<>>, scores |-> <<>>]

\* sorted(range(len(scores)), key=lambda i: scores[i], reverse=True) is
\* stable: an index goes behind every index whose score is not lower
RECURSIVE SortedIndices(_, _)
SortedIndices(scores, n) ==
    IF n = 0 THEN <<>>
    ELSE LET sorted == SortedIndices(scores, n - 1)
             ahead  == SelectSeq(sorted, LAMBDA j : scores[j] >= scores[n])
             behind == SelectSeq(sorted, LAMBDA j : scores[j] < scores[n])
         IN  ahead \o <<n>> \o behind

\* variant: the zero scores are not filtered out
TopIndicesUnfiltered(scores, n_results) ==
    Take(SortedIndices(scores, Len(scores)), n_results)

\* [i for i in sorted(...)[:n_results] if scores[i] > 0]
TopIndices(scores, n_results) ==
    SelectSeq(Take(SortedIndices(scores, Len(scores)), n_results),
              LAMBDA i : scores[i] > 0)

\* keyword_search over the service's fields; raised stands for the
\* IndexError of a subscript beyond one of the corpus lists
KeywordSearchOver(bm25, ids, documents, metadatas, query, n_results) ==
    IF ~bm25.built \/ Len(ids) = 0 THEN [raised |-> FALSE, results |-> EmptyResults]
    ELSE LET query_tokens == Tokenize(query)
         IN  IF query_tokens = <<>> THEN [raised |-> FALSE, results |-> EmptyResults]
             ELSE LET scores == GetScores(bm25.corpus, query_tokens)
                      top_indices == TopIndices(scores, n_results)
                      n == Len(top_indices)
                  IN  IF \E k \in 1..n : \/ top_indices[k] > Len(ids)
                                         \/ top_indices[k] > Len(documents)
                                         \/ top_indices[k] > Len(metadatas)
                      THEN [raised |-> TRUE, results |-> EmptyResults]
                      ELSE [ raised  |-> FALSE,
                             results |->
                               [ ids       |-> [k \in 1..n |-> ids[top_indices[k]]],
                                 documents |-> [k \in 1..n |-> documents[top_indices[k]]],
                                 metadatas |-> [k \in 1..n |-> metadatas[top_indices[k]]],
                                 scores    |-> [k \in 1..n |-> scores[top_indices[k]]] ] ]

\* ------------------------------------------------------------ hybrid_search
\* the n_results the callers ask for
ResultCounts == {1, 2}

SearchModes == {"semantic", "keyword", "hybrid"}

\* a query with a word the corpus holds, one with a word it does not hold,
\* and one without any word
Queries == { <<"b">>, <<"z">>, <<".">> }

\* (document_id, document_ids) as passed by the caller
FilterInputs == { <<0, <<>>>>, <<2, <<>>>>, <<2, <<1>>>> }

\* semantic_weight: float = 0.5, in tenths
DefaultSemanticWeight == 5

\* fetch_n = min(n_results * fetch_multiplier, 50)
FetchN(n_results) == IF n_results * 3 <= 50 THEN n_results * 3 ELSE 50

\* variant: every mode rebuilds the keyword index first
FirstStepAlwaysBuild(search_mode) == "build"

\* the first call hybrid_search makes in a mode
FirstStep(search_mode) == IF search_mode = "semantic" THEN "semantic" ELSE "build"

\* [0.0] * len(ids)
Zeros(ids) == [i \in 1..Len(ids) |-> 0]

\* the dictionary the semantic branch returns
SemanticModeResult(semantic_results) ==
    [ returned        |-> TRUE,
      ids             |-> semantic_results.ids,
      documents       |-> semantic_results.documents,
      metadatas       |-> semantic_results.metadatas,
      scores          |-> semantic_results.scores,
      semantic_scores |-> semantic_results.scores,
      keyword_scores  |-> Zeros(semantic_results.ids),
      search_mode     |-> "semantic" ]

\* the dictionary the keyword branch returns
KeywordModeResult(keyword_results) ==
    [ returned        |-> TRUE,
      ids             |-> keyword_results.ids,
      documents       |-> keyword_results.documents,
      metadatas       |-> keyword_results.metadatas,
      scores          |-> keyword_results.scores,
      semantic_scores |-> Zeros(keyword_results.ids),
      keyword_scores  |-> keyword_results.scores,
      search_mode     |-> "keyword" ]

\* the dictionary the hybrid branch returns
HybridModeResult(combined_results, n_results) ==
    LET top == TopResults(combined_results, n_results)
    IN  [ returned        |-> TRUE,
          ids             |-> top.ids,
          documents       |-> top.documents,
          metadatas       |-> top.metadatas,
          scores          |-> top.scores,
          semantic_scores |-> top.semantic_scores,
          keyword_scores  |-> top.keyword_scores,
          search_mode     |-> "hybrid" ]

\* variant: requests run on worker threads
EventLoopAlwaysFree == TRUE

\* _chat_with_tools calls hybrid_search without awaiting inside it: the
\* event loop runs one call from its first statement to its return
EventLoopFree == running = 0

\* the exception leaves hybrid_search through its except clause
RaiseFrom(c, exception) ==
    /\ calls' = [calls EXCEPT ![c].pc = "raised", ![c].failure = exception]
    /\ running' = 0

\* search_results = self.search_service.hybrid_search(...); the requests are
\* numbered in the order in which the event loop takes them up
StartCall(c, search_mode, query, n_results, document_id, document_ids) ==
    /\ EventLoopFree
    /\ calls[c].pc = "idle"
    /\ \A earlier \in Callers : earlier < c => calls[earlier].pc # "idle"
    /\ calls' = [calls EXCEPT ![c] =
                   [IdleCall EXCEPT !.pc = FirstStep(search_mode),
                                    !.search_mode = search_mode,
                                    !.query = query,
                                    !.n_results = n_results,
                                    !.where = WhereFilter(document_id, document_ids),
                                    !.semantic_weight = DefaultSemanticWeight]]
    /\ running' = c
    /\ UNCHANGED <<edge_vars, single_vars, index_configured, index, pipes, fusion,
                   has_collection, stored, keyword_vars>>

\* the step after build_bm25_index
AfterBuild(search_mode) == IF search_mode = "keyword" THEN "keyword" ELSE "semantic"

\* self.build_bm25_index(where=where_filter)
BuildBm25Index(c) ==
    /\ calls[c].pc = "build"
    /\ IF ~has_collection
       THEN \* AttributeError: the store has no attribute collection
            /\ RaiseFrom(c, "AttributeError")
            /\ UNCHANGED keyword_vars
       ELSE LET results == CollectionGet(calls[c].where)
                tokenized == [i \in 1..Len(results.documents) |->
                                 Tokenize(results.documents[i])]
                pulled == [calls EXCEPT ![c].pulled = TRUE,
                                        ![c].snapshot = results.ids]
            IN  IF Len(results.ids) = 0
                THEN /\ bm25_index' = NoBm25
                     /\ corpus_ids' = <<>>
                     /\ corpus_documents' = <<>>
                     /\ corpus_metadatas' = <<>>
                     /\ tokenized_corpus' = <<>>
                     /\ calls' = [pulled EXCEPT ![c].pc = AfterBuild(calls[c].search_mode)]
                     /\ UNCHANGED running
                ELSE /\ corpus_ids' = results.ids
                     /\ corpus_documents' = results.documents
                     /\ corpus_metadatas' = results.metadatas
                     /\ tokenized_corpus' = tokenized
                     /\ IF Bm25BuildRaises(tokenized)
                        THEN \* ZeroDivisionError in BM25Okapi
                             /\ UNCHANGED bm25_index
                             /\ calls' = [pulled EXCEPT ![c].pc = "raised",
                                                        ![c].failure = "ZeroDivisionError"]
                             /\ running' = 0
                        ELSE /\ bm25_index' = [built |-> TRUE, corpus |-> tokenized]
                             /\ calls' = [pulled EXCEPT
                                            ![c].pc = AfterBuild(calls[c].search_mode)]
                             /\ UNCHANGED running
    /\ UNCHANGED <<edge_vars, single_vars, index_configured, index, pipes, fusion,
                   has_collection, stored>>

\* the read of the vector index raises
BuildBm25IndexFail(c) ==
    /\ calls[c].pc = "build"
    /\ has_collection
    /\ RaiseFrom(c, "IndexReadError")
    /\ UNCHANGED <<edge_vars, single_vars, index_configured, index, pipes, fusion,
                   has_collection, stored, keyword_vars>>

\* n_results handed to the two engines
EngineCount(call) ==
    IF call.search_mode \in {"semantic", "keyword"} THEN call.n_results
    ELSE FetchN(call.n_results)

\* semantic_results = self.semantic_search(query, n_results, where), and the
\* return of the semantic branch
SemanticSearch(c) ==
    /\ calls[c].pc = "semantic"
    /\ \E ids \in Neighbors(EngineCount(calls[c])) :
           LET semantic_results ==
                   SemanticSearchResults(VectorStoreSearch(ids, calls[c].where))
           IN  IF calls[c].search_mode = "semantic"
               THEN /\ calls' = [calls EXCEPT
                                   ![c].pc = "returned",
                                   ![c].semantic_results = semantic_results,
                                   ![c].result = SemanticModeResult(semantic_results)]
                    /\ running' = 0
               ELSE /\ calls' = [calls EXCEPT
                                   ![c].pc = "keyword",
                                   ![c].semantic_results = semantic_results]
                    /\ UNCHANGED running
    /\ UNCHANGED <<edge_vars, single_vars, index_configured, index, pipes, fusion,
                   has_collection, stored, keyword_vars>>

\* variant: hybrid mode goes on with the keyword engine alone
SemanticSearchFailDegrading(c) ==
    /\ calls[c].pc = "semantic"
    /\ IF calls[c].search_mode = "semantic"
       THEN RaiseFrom(c, "SemanticSearchError")
       ELSE /\ calls' = [calls EXCEPT ![c].pc = "keyword",
                                      ![c].failure = "SemanticSearchError"]
            /\ UNCHANGED running
    /\ UNCHANGED <<edge_vars, single_vars, index_configured, index, pipes, fusion,
                   has_collection, stored, keyword_vars>>

\* generate_embedding or find_neighbors raises
SemanticSearchFail(c) ==
    /\ calls[c].pc = "semantic"
    /\ RaiseFrom(c, "SemanticSearchError")
    /\ UNCHANGED <<edge_vars, single_vars, index_configured, index, pipes, fusion,
                   has_collection, stored, keyword_vars>>

\* keyword_results = self.keyword_search(query, n_results), and the return
\* of the keyword branch
KeywordSearch(c) ==
    /\ calls[c].pc = "keyword"
    /\ LET found == KeywordSearchOver(bm25_index, corpus_ids, corpus_documents,
                                      corpus_metadatas, calls[c].query,
                                      EngineCount(calls[c]))
       IN  IF found.raised
           THEN RaiseFrom(c, "IndexError")
           ELSE IF calls[c].search_mode = "keyword"
                THEN /\ calls' = [calls EXCEPT
                                    ![c].pc = "returned",
                                    ![c].keyword_results = found.results,
                                    ![c].result = KeywordModeResult(found.results)]
                     /\ running' = 0
                ELSE /\ calls' = [calls EXCEPT
                                    ![c].pc = "fuse",
                                    ![c].keyword_results = found.results]
                     /\ UNCHANGED running
    /\ UNCHANGED <<edge_vars, single_vars, index_configured, index, pipes, fusion,
                   has_collection, stored, keyword_vars>>

\* get_scores raises
KeywordSearchFail(c) ==
    /\ calls[c].pc = "keyword"
    /\ bm25_index.built
    /\ Len(corpus_ids) # 0
    /\ Tokenize(calls[c].query) # <<>>
    /\ RaiseFrom(c, "KeywordSearchError")
    /\ UNCHANGED <<edge_vars, single_vars, index_configured, index, pipes, fusion,
                   has_collection, stored, keyword_vars>>

\* combined_results = self._reciprocal_rank_fusion(...), and the return of
\* the hybrid branch
FuseResults(c) ==
    /\ calls[c].pc = "fuse"
    /\ LET combined_results ==
               ReciprocalRankFusion(calls[c].semantic_results,
                                    calls[c].keyword_results,
                                    calls[c].semantic_weight)
       IN  IF combined_results.raised
           THEN RaiseFrom(c, "IndexError")
           ELSE /\ calls' = [calls EXCEPT
                               ![c].pc = "returned",
                               ![c].result = HybridModeResult(combined_results,
                                                              calls[c].n_results)]
                /\ running' = 0
    /\ UNCHANGED <<edge_vars, single_vars, index_configured, index, pipes, fusion,
                   has_collection, stored, keyword_vars>>

\* a background ingestion upserts one more chunk
StoreGrows ==
    /\ index_configured
    /\ stored < MaxIds
    /\ stored' = stored + 1
    /\ UNCHANGED <<edge_vars, single_vars, index_configured, index, pipes, fusion,
                   has_collection, keyword_vars, calls, running>>

\* a fresh service over a store that is a Vertex AI VectorStore or one with
\* a collection
InitSearch ==
    /\ IngestInit
    /\ fusion = NoFusion
    /\ has_collection \in BOOLEAN
    /\ stored = 0
    /\ ServiceInit
    /\ EdgeIdle

NextSearch ==
    \/ \E c \in Callers, search_mode \in SearchModes, query \in Queries,
          n_results \in ResultCounts, filter \in FilterInputs :
           StartCall(c, search_mode, query, n_results, filter[1], filter[2])
    \/ \E c \in Callers : BuildBm25Index(c)
    \/ \E c \in Callers : BuildBm25IndexFail(c)
    \/ \E c \in Callers : SemanticSearch(c)
    \/ \E c \in Callers : SemanticSearchFail(c)
    \/ \E c \in Callers : KeywordSearch(c)
    \/ \E c \in Callers : KeywordSearchFail(c)
    \/ \E c \in Callers : FuseResults(c)
    \/ StoreGrows

SpecSearch == InitSearch /\ [][NextSearch]_vars

\* ================================================================ claims
Terminal == {"completed", "failed"}

\* C1: during ingestion chunks_processed never exceeds the number of the
\* document's chunks that are in the vector index.
C1_ProcessedAtMostPersisted ==
    doc.exists => doc.chunks_processed <= Cardinality(IndexedChunks(doc.id))

\* C2: when ingestion fails at a batch (embedding or index write raises) the
\* document ends failed, num_chunks and chunk_ids are exactly the chunks
\* that are in the index, and the failure handling removes none of them.
C2_FailedRecordsPersisted ==
    /\ [](pc = "done" /\ error \in {"embedding", "index_write"}
            => /\ doc.status = "failed"
               /\ doc.num_chunks = Cardinality(IndexedChunks(doc.id))
               /\ Range(doc.chunk_ids) = IndexedChunks(doc.id))
    /\ [][pc = "stream_error" => index \subseteq index']_vars

\* C3: every yielded batch but the last holds exactly BatchSize chunks, the
\* last holds 1..BatchSize, a short batch is only yielded once the source is
\* exhausted, and a batch carries one embedding per chunk (that chunk's).
C3_BatchShape ==
    /\ \A i \in 1..Len(batch_sizes) :
          /\ batch_sizes[i] >= 1
          /\ batch_sizes[i] <= BatchSize
          /\ i < Len(batch_sizes) => batch_sizes[i] = BatchSize
    /\ (batch_sizes # <<>> /\ batch_sizes[Len(batch_sizes)] < BatchSize) => exhausted
    /\ pc \in {"persist", "commit"} =>
          /\ Len(yielded.chunks) = batch_sizes[Len(batch_sizes)]
          /\ Len(yielded.embeddings) = Len(yielded.chunks)
          /\ \A i \in 1..Len(yielded.chunks) :
                yielded.embeddings[i] = Embed(yielded.chunks[i].content)

C3_Witness ==
    /\ pc = "done"
    /\ Len(batch_sizes) = 2
    /\ batch_sizes[1] = BatchSize
    /\ batch_sizes[2] < BatchSize

\* C4: when the stream ends without error, the batch sizes sum to the number
\* of chunks chunk_text_with_pages returns for the same page texts, and the
\* ids stored are those chunks' ids in order (none lost, none duplicated).
C4_StreamingCountEqualsList ==
    (pc \in {"finalize", "done"} /\ error = "none") =>
        LET chunks == ChunkTextWithPages(pages_seen, FileName)
        IN  /\ SumSeq(batch_sizes) = Len(chunks)
            /\ all_chunk_ids = [i \in 1..Len(chunks) |-> chunks[i].id]

C4_Witness ==
    /\ pc = "done"
    /\ error = "none"
    /\ Len(pages_seen) = 2
    /\ Len(batch_sizes) >= 2
    /\ SumSeq(batch_sizes) >= 3

\* C5: once the embedding call has failed, the failing batch was not yielded,
\* every batch yielded before has been taken and recorded by the consumer,
\* no batch is yielded afterwards and nothing already stored or recorded is
\* undone.
C5_EmbeddingFailureAborts ==
    /\ [](error = "embedding" =>
            /\ yielded = NoBatch
            /\ total_chunks = SumSeq(batch_sizes)
            /\ Len(all_chunk_ids) = SumSeq(batch_sizes)
            /\ doc.chunks_processed = SumSeq(batch_sizes))
    /\ [][error = "embedding" =>
            /\ batch_sizes' = batch_sizes
            /\ index \subseteq index'
            /\ all_chunk_ids' = all_chunk_ids
            /\ doc'.chunks_processed = doc.chunks_processed
            /\ doc'.exists]_vars

C5_Witness ==
    /\ pc = "done"
    /\ error = "embedding"
    /\ batch_sizes # <<>>
    /\ index # {}

\* C6 (as stated): when the ingestion is over its document is in a terminal
\* status, completed or failed.
C6_EndsInTerminalStatus ==
    pc = "done" => (doc.exists /\ doc.status \in Terminal)

\* C6 (amended): every started ingestion ends; at the end the document is
\* completed (no error) or failed (error), or, in upload_document after an
\* error ahead of the streaming loop, its row is deleted; a terminal status
\* is never changed afterwards.
C6_EndsTerminalOrDeleted ==
    /\ (pc # "start") ~> (pc = "done")
    /\ [](pc = "done" =>
            \/ doc.exists /\ error = "none" /\ doc.status = "completed"
            \/ doc.exists /\ error # "none" /\ doc.status = "failed"
            \/ ~doc.exists /\ handler = "upload" /\ error = "services")
    /\ [][doc.status \in Terminal => doc'.status = doc.status]_vars

C6_Witness ==
    /\ pc = "done"
    /\ ~doc.exists
    /\ handler = "upload"

\* C7: chunks_processed never decreases over the ingestion, finalization
\* included.
C7_ProcessedMonotone ==
    [][doc'.chunks_processed >= doc.chunks_processed]_vars

C7_Witness ==
    /\ pc = "done"
    /\ Len(batch_sizes) >= 2
    /\ batch_sizes[Len(batch_sizes)] < BatchSize
    /\ doc.chunks_processed = SumSeq(batch_sizes)

\* C8: at status completed, chunks_processed = num_chunks = len(chunk_ids) =
\* the number of chunks the chunker yielded, whatever the estimate was.
C8_CompletedCounts ==
    (doc.exists /\ doc.status = "completed") =>
        /\ doc.chunks_processed = global_chunk_index
        /\ doc.num_chunks = global_chunk_index
        /\ Len(doc.chunk_ids) = global_chunk_index

C8_Witness ==
    /\ doc.status = "completed"
    /\ global_chunk_index > 0
    /\ global_chunk_index % BatchSize # 0
    /\ doc.chunks_estimated # global_chunk_index

\* C9: the progress endpoint reports is_searchable exactly when at least one
\* chunk of the document is in the vector index.
C9_SearchableIffIndexed ==
    doc.exists => (IsSearchable <=> IndexedChunks(doc.id) # {})

\* C10 (as stated): after an extraction failure the document is failed with
\* zero chunks.
C10_ExtractionFailureZeroChunks ==
    (pc = "done" /\ error = "extraction") =>
        (doc.status = "failed" /\ doc.num_chunks = 0)

\* C10 (amended): after an extraction failure the document is failed and
\* num_chunks / chunk_ids record the batches the loop completed before the
\* failure (chunks_processed); zero only when no batch had been completed.
C10_ExtractionFailureKeepsCount ==
    (pc = "done" /\ error = "extraction") =>
        /\ doc.exists
        /\ doc.status = "failed"
        /\ doc.num_chunks = doc.chunks_processed
        /\ doc.num_chunks = SumSeq(batch_sizes)
        /\ doc.chunk_ids = all_chunk_ids
        /\ Len(doc.chunk_ids) = doc.num_chunks
        /\ (doc.num_chunks = 0 <=> batch_sizes = <<>>)

C10_Witness ==
    /\ pc = "done"
    /\ error = "extraction"
    /\ doc.num_chunks > 0

\* the whole-document text extract_text hands to chunk_text
DocumentText(pages) ==
    LET NonBlank(p) == Strip(p.text) # <<>>
        kept == SelectSeq(pages, NonBlank)
    IN  Join([i \in 1..Len(kept) |-> kept[i].text], <<NL, NL>>)

\* every chunk text the three chunkers have emitted for the pages read so far
EmittedTexts ==
    Range(pending)
    \cup {c.content : c \in Range(batch_chunks) \cup Range(yielded.chunks)}
    \cup {c.content : c \in Range(ChunkTextWithPages(pages_seen, FileName))}
    \cup {c.content : c \in Range(ChunkText(DocumentText(pages_seen), FileName))}

C12_NoBlankChunk ==
    \A t \in EmittedTexts : Strip(t) # <<>>

\* an empty page and a page with an over-long sentence were read, and the
\* over-long sentence was yielded as a chunk
C12_Witness ==
    /\ \E i \in 1..Len(pages_seen) : pages_seen[i].text = <<>>
    /\ \E i \in 1..Len(pages_seen) : Len(pages_seen[i].text) > ChunkSize
    /\ \E c \in Range(batch_chunks) : Len(c.content) > ChunkSize

\* the chunk ids task p has handed to the index so far
WrittenIds(p) == {pipes[p].chunks[i].id : i \in 1..pipes[p].written}

\* C13: tasks ingesting different documents never write the same chunk id,
\* so every chunk a task wrote is still in the index under its own document
C13_NoSharedChunkId ==
    \A p, q \in Pipelines :
        p # q =>
            /\ WrittenIds(p) \cap WrittenIds(q) = {}
            /\ index_configured => WrittenIds(p) \subseteq IndexedChunks(pipes[p].document_id)

\* the fusion call has returned its combined lists
Fused == fusion.pc \in {"fused", "returned"}

\* ids of a ranked list
IdsOf(results) == Range(results.ids)

\* C14: the fused id list is exactly the union of the ids of the two input
\* lists, each id once
C14_FusedIdsAreUnion ==
    Fused =>
        LET ids == fusion.combined_results.ids
        IN  /\ Range(ids) = IdsOf(fusion.semantic_results) \cup IdsOf(fusion.keyword_results)
            /\ \A i, j \in 1..Len(ids) : i # j => ids[i] # ids[j]

\* a fusion of two lists that share an id and each hold an id of their own
C14_Witness ==
    /\ Fused
    /\ IdsOf(fusion.semantic_results) \cap IdsOf(fusion.keyword_results) # {}
    /\ IdsOf(fusion.semantic_results) \ IdsOf(fusion.keyword_results) # {}
    /\ IdsOf(fusion.keyword_results) \ IdsOf(fusion.semantic_results) # {}

\* the 0-indexed rank of id in a list, -1 when absent
RankIn(ids, id) ==
    IF \E i \in 1..Len(ids) : ids[i] = id
    THEN (CHOOSE i \in 1..Len(ids) : ids[i] = id) - 1
    ELSE -1

\* w / (k + r + 1) from the semantic list plus (1 - w) / (k + r + 1) from the
\* keyword list, in units of 1 / (WeightDen * RankProduct(MaxIds))
RrfScore(id) ==
    LET rs == RankIn(fusion.semantic_results.ids, id)
        rk == RankIn(fusion.keyword_results.ids, id)
        u  == RankProduct(MaxIds)
    IN  (IF rs < 0 THEN 0 ELSE (fusion.semantic_weight * u) \div (K + rs + 1))
        + (IF rk < 0 THEN 0 ELSE ((WeightDen - fusion.semantic_weight) * u) \div (K + rk + 1))

\* C15: the hybrid result is ordered by non-increasing combined RRF score,
\* and no id left out scores higher than a returned one
C15_OrderedByRrf ==
    fusion.pc = "returned" =>
        LET ids == fusion.result.ids
        IN  /\ \A i, j \in 1..Len(ids) : i < j => RrfScore(ids[i]) >= RrfScore(ids[j])
            /\ \A id \in Range(fusion.combined_results.ids) \ Range(ids) :
                   \A i \in 1..Len(ids) : RrfScore(ids[i]) >= RrfScore(id)

\* a returned result whose display scores rise where the RRF scores fall
C15_Witness ==
    /\ fusion.pc = "returned"
    /\ \E i, j \in 1..Len(fusion.result.ids) :
           /\ i < j
           /\ RrfScore(fusion.result.ids[i]) > RrfScore(fusion.result.ids[j])
           /\ fusion.result.scores[i].num < fusion.result.scores[j].num
           /\ fusion.result.scores[i].den = fusion.result.scores[j].den

\* C16: with semantic_weight = 1.0 the fused ranking starts with the
\* semantic list in its own order; keyword-only ids follow
C16_SemanticOrderKept ==
    (Fused /\ fusion.semantic_weight = WeightDen) =>
        LET ids == fusion.combined_results.ids
            sem == fusion.semantic_results.ids
        IN  /\ Len(ids) >= Len(sem)
            /\ SubSeq(ids, 1, Len(sem)) = sem

\* semantic_weight = 1.0, two semantic ids, and a keyword-only id that the
\* keyword list ranks first
C16_Witness ==
    /\ Fused
    /\ fusion.semantic_weight = WeightDen
    /\ Len(fusion.semantic_results.ids) >= 2
    /\ fusion.keyword_results.ids # <<>>
    /\ fusion.keyword_results.ids[1] \notin IdsOf(fusion.semantic_results)


\* ---------------------------------------------------------------- C17
\* the call has left hybrid_search
Finished(c) == calls[c].pc \in {"returned", "raised"}

\* C17: every step of a semantic-mode call leaves bm25_index, corpus_ids,
\* corpus_documents, corpus_metadatas and _tokenized_corpus as they were,
\* never enters the index build or the fusion, and the call returns the
\* ids the semantic engine answered, in the engine's order.
C17_SemanticModeFrame ==
    [][ \A c \in Callers :
          (calls'[c] # calls[c] /\ calls'[c].search_mode = "semantic") =>
              /\ UNCHANGED keyword_vars
              /\ calls'[c].pc \notin {"build", "keyword", "fuse"}
              /\ calls'[c].pc = "returned" =>
                     /\ calls'[c].result.ids = calls'[c].semantic_results.ids
                     /\ calls'[c].result.search_mode = "semantic"
                     /\ ~calls'[c].pulled ]_vars

\* a semantic-mode call returned two ids while the keyword index an earlier
\* call built is still in place
C17_Witness ==
    \E c \in Callers :
        /\ calls[c].search_mode = "semantic"
        /\ calls[c].pc = "returned"
        /\ Len(calls[c].result.ids) >= 2
        /\ bm25_index.built
        /\ corpus_ids # <<>>

\* ---------------------------------------------------------------- C18
\* no chunk the index may hold contains a word of the query
NoTermStored(query) ==
    \A id \in SearchIds :
        Range(Tokenize(StoredText(id))) \cap Range(Tokenize(query)) = {}

\* failures of the index read and of the engines themselves
EngineFailures == {"IndexReadError", "KeywordSearchError", "SemanticSearchError"}

\* C18: a keyword-mode search whose engines did not fail and whose query
\* has no word that a chunk contains returns empty lists and does not
\* raise; every result a keyword-mode search returns has a keyword score
\* above zero.
C18_NoMatchReturnsEmpty ==
    \A c \in Callers :
        (calls[c].search_mode = "keyword" /\ Finished(c)
            /\ calls[c].failure \notin EngineFailures) =>
            /\ NoTermStored(calls[c].query) =>
                   /\ calls[c].pc = "returned"
                   /\ calls[c].result.ids = <<>>
            /\ calls[c].pc = "returned" =>
                   \A i \in 1..Len(calls[c].result.ids) :
                       calls[c].result.keyword_scores[i] > 0

\* ---------------------------------------------------------------- C19
\* C19: a hybrid-mode call in which the index build, the semantic search,
\* the keyword search or the fusion failed has raised and holds no result;
\* a hybrid-mode call that returned a result had no failure.
C19_HybridFailureAborts ==
    \A c \in Callers :
        calls[c].search_mode = "hybrid" =>
            /\ calls[c].failure # "none" =>
                   /\ calls[c].pc = "raised"
                   /\ ~calls[c].result.returned
            /\ calls[c].result.returned =>
                   /\ calls[c].failure = "none"
                   /\ calls[c].pc = "returned"

\* the semantic search of a hybrid-mode call failed while the keyword index
\* the call built holds hits for the query
C19_Witness ==
    \E c \in Callers :
        /\ calls[c].search_mode = "hybrid"
        /\ calls[c].pc = "raised"
        /\ calls[c].failure = "SemanticSearchError"
        /\ KeywordSearchOver(bm25_index, corpus_ids, corpus_documents,
                             corpus_metadatas, calls[c].query,
                             FetchN(calls[c].n_results)).results.ids # <<>>

\* ---------------------------------------------------------------- C20
\* keyword_search run on an index built from the chunks of a snapshot alone
KeywordResultsFrom(snapshot, query, n_results) ==
    LET documents == [i \in 1..Len(snapshot) |-> StoredText(snapshot[i])]
        metadatas == [i \in 1..Len(snapshot) |-> StoredMetadata(snapshot[i])]
        tokenized == [i \in 1..Len(snapshot) |-> Tokenize(documents[i])]
        bm25 == IF Len(snapshot) = 0 THEN NoBm25
                ELSE [built |-> TRUE, corpus |-> tokenized]
    IN  KeywordSearchOver(bm25, snapshot, documents, metadatas, query,
                          n_results).results

\* the keyword search of the call has returned its lists
KeywordSearched(c) ==
    /\ calls[c].search_mode \in {"keyword", "hybrid"}
    /\ \/ calls[c].pc \in {"fuse", "returned"}
       \/ calls[c].pc = "raised" /\ calls[c].failure = "IndexError"

C21_SemanticRespectsFilter ==
    \A c \in Callers :
        calls[c].where.kind # "none" =>
            \A i \in 1..Len(calls[c].semantic_results.ids) :
                Matches(calls[c].where,
                        StoredMetadata(calls[c].semantic_results.ids[i]))

\* ============================================================ POST /search
\* term in content
IsSubstring(term, content) ==
    \E i \in 0..(Len(content) - Len(term)) :
        SubSeq(content, i + 1, i + Len(term)) = term

\* variant: the comparison keeps the case
ContainsTermCaseSensitive(term, content) == IsSubstring(term, content)

\* term.lower() in r.content.lower()
ContainsTerm(term, content) == IsSubstring(ToLower(term), ToLower(content))

\* AND: all(term in content for term in must_include)
HasAll(terms, content) == \A k \in 1..Len(terms) : ContainsTerm(terms[k], content)

\* any(term in content for term in terms)
HasAny(terms, content) == \E k \in 1..Len(terms) : ContainsTerm(terms[k], content)

\* apply_boolean_filters: three passes, each skipped when its list is None
\* or empty
ApplyBooleanFilters(results, request) ==
    LET included == IF request.must_include # <<>>
                    THEN SelectSeq(results,
                                   LAMBDA r : HasAll(request.must_include, r.content))
                    ELSE results
        not_excluded == IF request.must_exclude # <<>>
                        THEN SelectSeq(included,
                                       LAMBDA r : ~HasAny(request.must_exclude, r.content))
                        ELSE included
    IN  IF request.any_of # <<>>
        THEN SelectSeq(not_excluded, LAMBDA r : HasAny(request.any_of, r.content))
        ELSE not_excluded

\* not request.query.strip()
EmptyQuery(request) == Strip(request.query) = <<>>

\* request.top_k < 1 or request.top_k > 50
TopKOutOfRange(request) == request.top_k < 1 \/ request.top_k > 50

\* fetch_multiplier = 3 if (must_include or must_exclude or any_of) else 1
FetchMultiplier(request) ==
    IF request.must_include # <<>> \/ request.must_exclude # <<>> \/ request.any_of # <<>>
    THEN 3 ELSE 1

\* fetch_k = min(request.top_k * fetch_multiplier, 50)
FetchK(request) ==
    IF request.top_k * FetchMultiplier(request) <= 50
    THEN request.top_k * FetchMultiplier(request) ELSE 50

\* the rows of the chunks table the endpoint finds; a chunk that is not in
\* the database gets the placeholder content "" and metadata {}
FormatResults(chunk_ids, missing) ==
    [i \in 1..Len(chunk_ids) |->
        [ chunk_id |-> chunk_ids[i],
          content  |-> IF chunk_ids[i] \in missing THEN <<>> ELSE StoredText(chunk_ids[i]),
          score    |-> 10 - Distance(i),
          found    |-> chunk_ids[i] \notin missing ]]

\* variant: the results are not trimmed
TrimNothing(results, top_k) == results

\* results[:request.top_k]
TrimToTopK(results, top_k) == Take(results, top_k)

\* variant: trim first, filter afterwards
TrimThenFilter(results, request) ==
    ApplyBooleanFilters(TrimToTopK(results, request.top_k), request)

\* results = apply_boolean_filters(results, request); results = results[:top_k]
FilterThenTrim(results, request) ==
    TrimToTopK(ApplyBooleanFilters(results, request), request.top_k)

\* the neighbours find_neighbors answers for num_neighbors over an index
\* whose ranking for the query is order
NearestNeighbors(order, num_neighbors) == Take(order, num_neighbors)

\* the results list of the response for a request over an index
SearchResponseOf(request, order, missing) ==
    FilterThenTrim(FormatResults(NearestNeighbors(order, FetchK(request)), missing),
                   request)

\* the requests sent to the endpoint: a query with a word and a blank one,
\* top_k inside and outside 1..50, terms in either case; semantic_weight is
\* a field of the body that SearchRequest does not declare, in tenths
SearchRequests ==
    [ query           : { <<"b">>, <<" ">> },
      top_k           : {0, 1, 2, 51},
      document_id     : {0, 2},
      document_ids    : { <<>> },
      must_include    : { <<>>, << <<"B">> >> },
      must_exclude    : { <<>>, << <<"c">> >>, << <<"c">>, <<"A","a">> >> },
      any_of          : { <<>>, << <<"A","a">>, <<"c">> >> },
      semantic_weight : {5, 15} ]

\* chunk ids that the index holds and the chunks table does not
MissingSets == { {}, {1} }

\* a request as the route receives it
NewSearchRequest(request, order, missing) ==
    [ pc              |-> "received",
      request         |-> request,
      order           |-> order,
      missing         |-> missing,
      embedding_calls |-> 0,
      index_calls     |-> 0,
      candidates      |-> <<>>,
      results         |-> <<>>,
      status          |-> 0 ]

\* everything but the request
endpoint_frame == <<single_vars, index_configured, index, pipes, fusion, search_vars,
                    watch, deleted, publisher>>

\* the two checks before the try block
ValidateRequest ==
    /\ endpoint.pc = "received"
    /\ endpoint' = IF EmptyQuery(endpoint.request) \/ TopKOutOfRange(endpoint.request)
                   THEN [endpoint EXCEPT !.pc = "rejected", !.status = 400]
                   ELSE [endpoint EXCEPT !.pc = "validated"]
    /\ UNCHANGED endpoint_frame

\* query_embedding = embed_svc.generate_embedding(request.query)
GenerateQueryEmbedding ==
    /\ endpoint.pc = "validated"
    /\ endpoint' = [endpoint EXCEPT !.pc = "embedded", !.embedding_calls = @ + 1]
    /\ UNCHANGED endpoint_frame

\* the embedding raises: except Exception -> HTTP 500
GenerateQueryEmbeddingFail ==
    /\ endpoint.pc = "validated"
    /\ endpoint' = [endpoint EXCEPT !.pc = "failed", !.embedding_calls = @ + 1,
                                    !.status = 500]
    /\ UNCHANGED endpoint_frame

\* search_results = vec_store.search(query_embedding, fetch_k, where_filter)
VectorSearch ==
    /\ endpoint.pc = "embedded"
    /\ endpoint' = [endpoint EXCEPT
                      !.pc = "searched",
                      !.index_calls = @ + 1,
                      !.candidates = VectorStoreSearch(
                          NearestNeighbors(endpoint.order, FetchK(endpoint.request)),
                          WhereFilter(endpoint.request.document_id,
                                      endpoint.request.document_ids)).ids]
    /\ UNCHANGED endpoint_frame

\* find_neighbors raises: except Exception -> HTTP 500
VectorSearchFail ==
    /\ endpoint.pc = "embedded"
    /\ endpoint' = [endpoint EXCEPT !.pc = "failed", !.index_calls = @ + 1,
                                    !.status = 500]
    /\ UNCHANGED endpoint_frame

\* the chunks are read from the database, filtered, trimmed and returned
Respond ==
    /\ endpoint.pc = "searched"
    /\ endpoint' = [endpoint EXCEPT
                      !.pc = "responded",
                      !.results = FilterThenTrim(
                          FormatResults(endpoint.candidates, endpoint.missing),
                          endpoint.request),
                      !.status = 200]
    /\ UNCHANGED endpoint_frame

\* a request arrives at an index of stored chunks
InitEndpoint ==
    /\ IngestInit
    /\ fusion = NoFusion
    /\ has_collection = FALSE
    /\ stored \in 0..MaxIds
    /\ ServiceInit
    /\ endpoint \in { NewSearchRequest(request, order, missing) :
                        request \in SearchRequests,
                        order \in NeighborOrders(stored),
                        missing \in MissingSets }
    /\ watch = NoWatch
    /\ deleted = {}
    /\ publisher = NoPublish

NextEndpoint ==
    \/ ValidateRequest
    \/ GenerateQueryEmbedding
    \/ GenerateQueryEmbeddingFail
    \/ VectorSearch
    \/ VectorSearchFail
    \/ Respond

SpecEndpoint == InitEndpoint /\ [][NextEndpoint]_vars

\* ---------------------------------------------------------------- C22
\* the condition the three lists put on a content
PassesBoolean(content, request) ==
    /\ \A k \in 1..Len(request.must_include) :
           IsSubstring(ToLower(request.must_include[k]), ToLower(content))
    /\ \A k \in 1..Len(request.must_exclude) :
           ~IsSubstring(ToLower(request.must_exclude[k]), ToLower(content))
    /\ request.any_of # <<>> =>
           \E k \in 1..Len(request.any_of) :
               IsSubstring(ToLower(request.any_of[k]), ToLower(content))

\* C22: apply_boolean_filters keeps, in their order, exactly the results
\* whose content, compared case-insensitively by substring, holds every
\* must_include term, no must_exclude term and, when any_of is given, one
\* of its terms; an empty list puts no condition.
C22_BooleanFilterExact ==
    endpoint.pc = "searched" =>
        LET results == FormatResults(endpoint.candidates, endpoint.missing)
        IN  ApplyBooleanFilters(results, endpoint.request) =
                SelectSeq(results, LAMBDA r : PassesBoolean(r.content, endpoint.request))

\* all three lists are given, a term differs from the content in case only,
\* and the filter both keeps and drops a candidate
C22_Witness ==
    /\ endpoint.pc = "searched"
    /\ endpoint.request.must_include # <<>>
    /\ endpoint.request.must_exclude # <<>>
    /\ endpoint.request.any_of # <<>>
    /\ LET results == FormatResults(endpoint.candidates, endpoint.missing)
           kept == ApplyBooleanFilters(results, endpoint.request)
       IN  /\ kept # <<>>
           /\ Len(kept) < Len(results)
           /\ \E i \in 1..Len(kept) :
                  ~IsSubstring(endpoint.request.must_include[1], kept[i].content)

\* ---------------------------------------------------------------- C23
\* the elements of a list at the positions of a set, in their order
RECURSIVE Pick(_, _, _)
Pick(list, positions, i) ==
    IF i > Len(list) THEN <<>>
    ELSE (IF i \in positions THEN <<list[i]>> ELSE <<>>) \o Pick(list, positions, i + 1)

\* a list with some of its terms removed, or all of them
Relaxations(terms) == { Pick(terms, positions, 1) : positions \in SUBSET (1..Len(terms)) }

\* C23: the response to a request holds no more results than the response
\* to the same request over the same index with terms of must_exclude
\* removed or the list dropped.
C23_RelaxedExcludeNotFewer ==
    endpoint.pc = "responded" =>
        \A relaxed \in Relaxations(endpoint.request.must_exclude) :
            Len(SearchResponseOf([endpoint.request EXCEPT !.must_exclude = relaxed],
                                 endpoint.order, endpoint.missing))
                >= Len(endpoint.results)

\* must_exclude is the only list, it drops a candidate, and dropping the
\* list takes the over-fetch away
C23_Witness ==
    /\ endpoint.pc = "responded"
    /\ endpoint.request.must_exclude # <<>>
    /\ endpoint.request.must_include = <<>>
    /\ endpoint.request.any_of = <<>>
    /\ Len(endpoint.candidates) > endpoint.request.top_k
    /\ \E i \in 1..endpoint.request.top_k :
           ~PassesBoolean(FormatResults(endpoint.candidates, endpoint.missing)[i].content,
                          endpoint.request)
    /\ Len(endpoint.results) = endpoint.request.top_k

\* ---------------------------------------------------------------- C24
\* C24: the response holds the first top_k of the candidates that pass the
\* boolean filter, in the candidates' order: at most top_k results, and a
\* passing candidate is left out only when top_k passing candidates rank
\* before it.
C24_FilterBeforeTrim ==
    endpoint.pc = "responded" =>
        LET candidates == FormatResults(endpoint.candidates, endpoint.missing)
            passing == SelectSeq(candidates,
                                 LAMBDA r : PassesBoolean(r.content, endpoint.request))
        IN  /\ Len(endpoint.results) <= endpoint.request.top_k
            /\ endpoint.results = SubSeq(passing, 1, Len(endpoint.results))
            /\ Len(endpoint.results) < Len(passing) =>
                   Len(endpoint.results) = endpoint.request.top_k

\* a candidate that ranks behind the first top_k is returned because one
\* before it did not pass
C24_Witness ==
    /\ endpoint.pc = "responded"
    /\ \E i \in 1..Len(endpoint.results) :
           \E j \in 1..Len(endpoint.candidates) :
               /\ endpoint.candidates[j] = endpoint.results[i].chunk_id
               /\ j > endpoint.request.top_k

\* ---------------------------------------------------------------- C25
\* semantic_weight outside [0, 1], in tenths
WeightOutOfRange(request) == request.semantic_weight < 0 \/ request.semantic_weight > WeightDen

\* C25: a request with a blank query, a top_k outside 1..50 or a
\* semantic_weight outside [0, 1] is answered 400 at its first step and
\* causes no embedding computation and no call of the vector index.
C25_InvalidRequestRejected ==
    (endpoint.pc # "idle"
        /\ \/ EmptyQuery(endpoint.request)
           \/ TopKOutOfRange(endpoint.request)
           \/ WeightOutOfRange(endpoint.request)) =>
        /\ endpoint.pc \in {"received", "rejected"}
        /\ endpoint.pc = "rejected" => endpoint.status = 400
        /\ endpoint.embedding_calls = 0
        /\ endpoint.index_calls = 0

\* ---------------------------------------------------------------- C29
\* C29: the six lists of every result hybrid_search returns have one
\* length, and position i of documents and metadatas holds the content and
\* the metadata of the chunk ids[i].
C29_ResultListsAligned ==
    \A c \in Callers :
        calls[c].result.returned =>
            LET result == calls[c].result
                n == Len(result.ids)
            IN  /\ Len(result.documents) = n
                /\ Len(result.metadatas) = n
                /\ Len(result.scores) = n
                /\ Len(result.semantic_scores) = n
                /\ Len(result.keyword_scores) = n
                /\ \A i \in 1..n :
                       /\ result.documents[i] = StoredText(result.ids[i])
                       /\ result.metadatas[i] = StoredMetadata(result.ids[i])

\* ---------------------------------------------------------------- C28
\* C28: at every point of the ingestion the chunks pulled from the chunk
\* source are at most BatchSize more than the document's chunks in the
\* vector index.
C28_OneBatchAhead ==
    doc.exists => global_chunk_index - Cardinality(IndexedChunks(doc.id)) <= BatchSize

\* ================================================= DirectHTTPPublisher
\* MAX_RETRIES: int = 3
MAX_RETRIES == 3

\* what one POST may end in: a status code or an exception
PostOutcomes ==
    [kind : {"response"}, status_code : {200, 201, 202, 204, 500}]
        \cup [kind : {"TimeoutException", "ConnectError", "Exception"}, status_code : {0}]

\* response.status_code in [200, 201, 202]
Accepted(outcome) == outcome.kind = "response" /\ outcome.status_code \in {200, 201, 202}

\* variant: one more round before giving up
MoreAttemptsOneMore(attempt) == attempt < MAX_RETRIES

\* attempt < self.settings.MAX_RETRIES - 1
MoreAttempts(attempt) == attempt < MAX_RETRIES - 1

\* everything but the publish call
publisher_frame == <<single_vars, index_configured, index, pipes, fusion, search_vars,
                     endpoint, watch, deleted>>

\* success = await self.publisher.publish(event): range(MAX_RETRIES) is
\* entered, or is empty
StartPublish ==
    /\ publisher.pc = "idle"
    /\ publisher' = IF MAX_RETRIES > 0
                    THEN [publisher EXCEPT !.pc = "post"]
                    ELSE [publisher EXCEPT !.pc = "returned", !.result = FALSE]
    /\ UNCHANGED publisher_frame

\* one round of the loop up to the sleep: the POST and what it ends in
Post(outcome) ==
    /\ publisher.pc = "post"
    /\ publisher' =
         [publisher EXCEPT
            !.outcomes = Append(@, outcome),
            !.pc = IF Accepted(outcome) THEN "returned"
                   ELSE IF MoreAttempts(publisher.attempt) THEN "sleep"
                   ELSE "returned",
            !.result = Accepted(outcome)]
    /\ UNCHANGED publisher_frame

\* await asyncio.sleep(RETRY_DELAY), then the next round
Retry ==
    /\ publisher.pc = "sleep"
    /\ publisher' = [publisher EXCEPT !.pc = "post", !.attempt = @ + 1]
    /\ UNCHANGED publisher_frame

InitPublish ==
    /\ IngestInit
    /\ fusion = NoFusion
    /\ has_collection = FALSE
    /\ stored = 0
    /\ ServiceInit
    /\ EdgeIdle

NextPublish ==
    \/ StartPublish
    \/ \E outcome \in PostOutcomes : Post(outcome)
    \/ Retry

SpecPublish == InitPublish /\ [][NextPublish]_vars

\* the POST has a 60 s timeout and the sleep ends: a round that can be
\* taken is taken
FairSpecPublish == SpecPublish /\ WF_vars(NextPublish)

\* ---------------------------------------------------------------- C30
\* an attempt that failed in a way the claim lists: a non-2xx status, a
\* timeout, a connection error or another exception
ListedFailure(outcome) ==
    \/ outcome.kind \in {"TimeoutException", "ConnectError", "Exception"}
    \/ outcome.kind = "response" /\ (outcome.status_code < 200 \/ outcome.status_code > 299)

\* the attempt was answered 200, 201 or 202
Answered2xxListed(outcome) ==
    outcome.kind = "response" /\ outcome.status_code \in {200, 201, 202}

\* C30 as stated: publish returns False only after MAX_RETRIES attempts
\* that each ended in a non-2xx status, a timeout, a connection error or
\* another exception.
C30_FalseOnlyAfterListedFailures ==
    (publisher.pc = "returned" /\ ~publisher.result) =>
        /\ Len(publisher.outcomes) = MAX_RETRIES
        /\ \A i \in 1..MAX_RETRIES : ListedFailure(publisher.outcomes[i])

\* C30: publish ends after at most MAX_RETRIES POST attempts; it returns
\* True exactly when its last attempt was answered 200, 201 or 202, every
\* attempt before the last was not, and it returns False only after
\* MAX_RETRIES attempts none of which was answered 200, 201 or 202.
C30_PublishTerminates ==
    /\ <>(publisher.pc = "returned")
    /\ [](Len(publisher.outcomes) <= MAX_RETRIES)
    /\ [](\A i \in 1..(Len(publisher.outcomes) - 1) :
              ~Answered2xxListed(publisher.outcomes[i]))
    /\ [](publisher.pc = "returned" =>
              /\ publisher.result =>
                     /\ publisher.outcomes # <<>>
                     /\ Answered2xxListed(publisher.outcomes[Len(publisher.outcomes)])
              /\ ~publisher.result =>
                     /\ Len(publisher.outcomes) = MAX_RETRIES
                     /\ \A i \in 1..MAX_RETRIES :
                            ~Answered2xxListed(publisher.outcomes[i]))

\* publish returned True at its last permitted attempt after a timeout and
\* a status 204
C30_Witness ==
    /\ publisher.pc = "returned"
    /\ publisher.result
    /\ Len(publisher.outcomes) = MAX_RETRIES
    /\ publisher.outcomes[1].kind = "TimeoutException"
    /\ publisher.outcomes[2].status_code = 204

\* ===================================================== DELETE /{document_id}
\* delete_by_ids when remove_datapoints does not raise; returns False and
\* removes nothing when the index is not configured for updates
DeleteByIds(store, ids) ==
    IF ~index_configured THEN store
    ELSE {d \in store : d.datapoint_id \notin Range(ids)}

\* delete_document answering success: the chunk ids committed on the row are
\* removed from the index, then the row is deleted. The route is a plain def,
\* run in the thread pool beside the ingestion of the same document.
DeleteDocument ==
    /\ doc.exists
    /\ index' = IF doc.chunk_ids # <<>> THEN DeleteByIds(index, doc.chunk_ids) ELSE index
    /\ doc' = [doc EXCEPT !.exists = FALSE]
    /\ deleted' = deleted \cup {doc.id}
    /\ UNCHANGED <<pc, handler, index_configured, chunker_vars, batcher_vars, handler_vars,
                   error, pipes, fusion, search_vars, endpoint, watch, publisher>>

\* the ingestion touches its row after the row was deleted: the commit (or
\* the reload of the expired row) raises, the handlers' own commits raise
\* as well, and the task ends
RowGone ==
    /\ deleted # {}
    /\ pc \notin {"start", "done"}
    /\ error' = "row_deleted"
    /\ pc' = "done"
    /\ UNCHANGED <<service_vars, handler, index_configured, doc, chunker_vars, batcher_vars,
                   handler_vars, index>>

\* an ingestion with delete_document beside it: once the row is gone the
\* ingestion takes only the steps that do not write the row
NextDelete ==
    \/ deleted = {} /\ Next
    \/ deleted # {} /\ Next /\ doc' = doc
    \/ DeleteDocument
    \/ RowGone

SpecDelete == Init /\ [][NextDelete]_vars

\* ---------------------------------------------------------------- C26
\* C26: once delete_document has succeeded for a document, the vector index
\* holds no chunk of that document, in whatever state its ingestion was
\* when the delete ran and at every later point.
C26_DeletedLeavesNoChunk ==
    \A document_id \in deleted : IndexedChunks(document_id) = {}

\* ================================================== POST /process-file
\* MAX_UPLOAD_SIZE: int = 50 * 1024 * 1024
MAX_UPLOAD_SIZE == 50 * 1024 * 1024

\* request.file_name.lower().endswith('.pdf')
EndsWithPdf(file_name) ==
    /\ Len(file_name) >= 4
    /\ SubSeq(ToLower(file_name), Len(file_name) - 3, Len(file_name)) = <<".", "p", "d", "f">>

\* the events the watcher may post: event type, file name, whether the path
\* exists, and the size os.path.getsize reads
ProcessFileRequests ==
    [ event_type  : {"OBJECT_FINALIZE", "OBJECT_DELETE"},
      file_name   : { <<"a", ".", "p", "d", "f">>, <<"a", ".", "P", "D", "F">>,
                      <<"a", ".", "t", "x", "t">> },
      path_exists : BOOLEAN,
      actual_size : {1, 2, MAX_UPLOAD_SIZE + 1} ]

\* db.query(Document).filter(original_filename == file_name,
\* file_size == actual_size).first() is not None
Existing(file_name, actual_size) ==
    \E i \in 1..Len(watch.documents) :
        /\ watch.documents[i].original_filename = file_name
        /\ watch.documents[i].file_size = actual_size

\* the id of the row .first() returns
ExistingId(file_name, actual_size) ==
    (CHOOSE i \in 1..Len(watch.documents) :
        /\ watch.documents[i].original_filename = file_name
        /\ watch.documents[i].file_size = actual_size
        /\ \A j \in 1..(i - 1) :
              ~(/\ watch.documents[j].original_filename = file_name
                /\ watch.documents[j].file_size = actual_size))

\* what the handler answers
ProcessFileMessage(request) ==
    IF request.event_type # "OBJECT_FINALIZE" THEN "400 Unsupported event type"
    ELSE IF ~EndsWithPdf(request.file_name) THEN "400 Only PDF files are allowed"
    ELSE IF ~request.path_exists THEN "404 File not found"
    ELSE IF Existing(request.file_name, request.actual_size) THEN "File already processed"
    ELSE IF request.actual_size > MAX_UPLOAD_SIZE THEN "413 File too large"
    ELSE "File queued for processing"

\* everything but the process-file requests
watch_frame == <<single_vars, index_configured, index, pipes, fusion, search_vars,
                 endpoint, deleted, publisher>>

\* process_file_from_watcher, from its first statement to its return: the
\* coroutine has no await, the event loop runs it in one piece
ProcessFileFromWatcher(r, request) ==
    /\ watch.handlers[r].pc = "idle"
    /\ \A earlier \in WatchRequests : earlier < r => watch.handlers[earlier].pc # "idle"
    /\ LET message == ProcessFileMessage(request)
       IN  watch' = [watch EXCEPT !.handlers[r] =
               [ pc          |-> "answered",
                 file_name   |-> request.file_name,
                 actual_size |-> request.actual_size,
                 message     |-> message,
                 task        |-> IF message = "File queued for processing"
                                 THEN "scheduled" ELSE "none",
                 document_id |-> IF message = "File already processed"
                                 THEN ExistingId(request.file_name, request.actual_size)
                                 ELSE 0 ]]
    /\ UNCHANGED watch_frame

\* _process_file_background, run in the thread pool after the response:
\* Document(status="processing"); db.add; db.commit
BackgroundCreateDocument(r) ==
    /\ watch.handlers[r].task = "scheduled"
    /\ watch' = [watch EXCEPT
          !.documents = Append(@, [ id                |-> Len(watch.documents) + 1,
                                    original_filename |-> watch.handlers[r].file_name,
                                    file_size         |-> watch.handlers[r].actual_size,
                                    status            |-> "processing" ]),
          !.handlers[r].task = "running",
          !.handlers[r].document_id = Len(watch.documents) + 1]
    /\ UNCHANGED watch_frame

\* the ingestion of the task ends: completed, or failed
BackgroundEnd(r, final_status) ==
    /\ watch.handlers[r].task = "running"
    /\ watch' = [watch EXCEPT
          !.documents[watch.handlers[r].document_id].status = final_status,
          !.handlers[r].task = "ended"]
    /\ UNCHANGED watch_frame

InitWatch ==
    /\ IngestInit
    /\ fusion = NoFusion
    /\ has_collection = FALSE
    /\ stored = 0
    /\ ServiceInit
    /\ EdgeIdle

NextWatch ==
    \/ \E r \in WatchRequests, request \in ProcessFileRequests : ProcessFileFromWatcher(r, request)
    \/ \E r \in WatchRequests : BackgroundCreateDocument(r)
    \/ \E r \in WatchRequests, final_status \in {"completed", "failed"} : BackgroundEnd(r, final_status)

SpecWatch == InitWatch /\ [][NextWatch]_vars

\* ---------------------------------------------------------------- C27
\* the requests that carried this file name and size past the validation
SameFile(r1, r2) ==
    /\ watch.handlers[r1].file_name = watch.handlers[r2].file_name
    /\ watch.handlers[r1].actual_size = watch.handlers[r2].actual_size

\* C27: among the process-file requests carrying the same file name and
\* size at most one schedules a background task and at most one Document
\* row is created.
C27_OneIngestionPerFile ==
    /\ \A r1, r2 \in WatchRequests :
          (/\ r1 # r2
           /\ watch.handlers[r1].task # "none"
           /\ watch.handlers[r2].task # "none") => ~SameFile(r1, r2)
    /\ \A i, j \in 1..Len(watch.documents) :
          (/\ watch.documents[i].original_filename = watch.documents[j].original_filename
           /\ watch.documents[i].file_size = watch.documents[j].file_size) => i = j

====
